---- MODULE Spec2Model ----
(***************************************************************************)
(* Self-update subsystem of Offline Scouting Manager.                      *)
(*                                                                         *)
(* Two implementations live side by side in the repository:                *)
(*   - utils/update_service.py (+ update_client, update_integrity,         *)
(*     update_state, update_apply): the "service" path;                    *)
(*   - utils/update_manager.py (+ version_check): the "manager" path,      *)
(*     the one main.py wires to the /api/update/* routes.                  *)
(* Strings whose characters matter (file names, digests, sidecar text,     *)
(* version tags) are sequences of one-character strings.                   *)
(*                                                                         *)
(* A Python function that reads or changes files takes the world w it runs *)
(* in and gives Ret(w', value): the world after it and what it returns.    *)
(***************************************************************************)
EXTENDS Integers, Sequences, FiniteSets, TLC

VARIABLES
    api,         \* "service" | "manager": which implementation the host wires in
    mode,        \* "packaged" | "source": sys.frozen / sys._MEIPASS
    os,          \* "linux" | "windows": sys.platform / platform.system()
    now,         \* wall clock, seconds
    registry,    \* what the releases endpoint currently lists
    svcFile,     \* updates/update_state.json  (update_state.py)
    mgrFile,     \* updates/state.json         (update_manager.py)
    fs,          \* staged files: path -> content
    lastOp,      \* the last operation: inputs, requests issued, writes, result
    parseIn,     \* arguments of a call of a pure function (parse_sha256_text, ...)
    parseOut,    \* its return value
    writer,      \* a state-file write in progress: position, file, payload
    procs        \* helper scripts and threads in flight: name -> position and locals

vars == <<api, mode, os, now, registry, svcFile, mgrFile, fs, lastOp, parseIn, parseOut,
          writer, procs>>

----------------------------------------------------------------------------
(* Python values *)

\* None where a string (a character sequence) is expected
None == <<"<None>">>
\* None where a short symbolic string is expected
NoneStr == "None"
\* None where a timestamp is expected
NoTime == -1

\* Python truthiness of an optional character string
Truthy(s) == s # None /\ s # <<>>

LowerTable ==
    [c \in {"A","B","C","D","E","F","G","H","I","J","K","L","M","N","O","P","Q",
            "R","S","T","U","V","W","X","Y","Z"} |->
        CASE c = "A" -> "a" [] c = "B" -> "b" [] c = "C" -> "c" [] c = "D" -> "d"
          [] c = "E" -> "e" [] c = "F" -> "f" [] c = "G" -> "g" [] c = "H" -> "h"
          [] c = "I" -> "i" [] c = "J" -> "j" [] c = "K" -> "k" [] c = "L" -> "l"
          [] c = "M" -> "m" [] c = "N" -> "n" [] c = "O" -> "o" [] c = "P" -> "p"
          [] c = "Q" -> "q" [] c = "R" -> "r" [] c = "S" -> "s" [] c = "T" -> "t"
          [] c = "U" -> "u" [] c = "V" -> "v" [] c = "W" -> "w" [] c = "X" -> "x"
          [] c = "Y" -> "y" [] c = "Z" -> "z"]

\* str.lower()
Lower(s) == [i \in 1..Len(s) |-> IF s[i] \in DOMAIN LowerTable THEN LowerTable[s[i]] ELSE s[i]]

\* str.endswith(suffix)
EndsWith(s, suffix) ==
    /\ Len(suffix) <= Len(s)
    /\ SubSeq(s, Len(s) - Len(suffix) + 1, Len(s)) = suffix

\* `sub in s`
Contains(s, sub) ==
    \E i \in 0..(Len(s) - Len(sub)) : SubSeq(s, i + 1, i + Len(sub)) = sub

\* the k-th smallest element of a set of integers
Nth(S, k) == CHOOSE i \in S : Cardinality({ j \in S : j < i }) = k - 1

\* the smallest element of a non-empty set of integers
Min(S) == CHOOSE i \in S : \A j \in S : i <= j

\* The maximal runs of characters of s outside seps, in order:
\* str.split() for seps = whitespace, the non-empty lines for seps = {"\n"}
Tokens(s, seps) ==
    LET Cut(starts, ends) ==
            [k \in 1..Cardinality(starts) |-> SubSeq(s, Nth(starts, k), Nth(ends, k))]
    IN  Cut({ i \in 1..Len(s) : s[i] \notin seps /\ (i = 1 \/ s[i - 1] \in seps) },
            { i \in 1..Len(s) : s[i] \notin seps /\ (i = Len(s) \/ s[i + 1] \in seps) })

Whitespace == {" ", "\t", "\n", "\r"}

\* str.lstrip(chars)
LStrip(s, chars) ==
    LET Strip(kept) == IF kept = {} THEN <<>> ELSE SubSeq(s, Min(kept), Len(s))
    IN  Strip({ i \in 1..Len(s) : s[i] \notin chars })

\* the first of the indices a loop stops at, 0 if it stops at none
FirstIndex(hits) == IF hits = {} THEN 0 ELSE Min(hits)

----------------------------------------------------------------------------
(* utils/update_integrity.py *)

\* length of a SHA-256 hex digest
DigestLen == 64

\* the digest-shaped string made of one repeated character
Rep(c) == [i \in 1..DigestLen |-> c]

\* hashlib.sha256(bytes).hexdigest().lower(): the bytes of a file are named by
\* an identifier, and distinct bytes have distinct digests
compute_sha256(bytes) ==
    CASE bytes = "B1"  -> Rep("a")
      [] bytes = "B2"  -> Rep("b")
      [] bytes = "B1~" -> Rep("c")
      [] bytes = "B2~" -> Rep("d")
      [] OTHER         -> Rep("e")

\* the lines of parse_sha256_text: stripped, blank ones dropped
SidecarLines(contents) ==
    SelectSeq(Tokens(contents, {"\n", "\r"}), LAMBDA l : Tokens(l, Whitespace) # <<>>)

\* the condition of lines 29-33 on one line
LineNamesTarget(line, lowered_target) ==
    LET Test(parts) ==
            /\ Len(parts) >= 2
            /\ parts[1] # <<>>
            /\ EndsWith(Lower(parts[Len(parts)]), lowered_target)
    IN  Test(Tokens(line, Whitespace))

\* line.split()[0]
FirstColumn(line) == Tokens(line, Whitespace)[1]

parse_sha256_text(contents, target_filename) ==
    LET Fallback(first) == IF Len(first) = DigestLen THEN Lower(first) ELSE None
        Pick(lines, m) ==
            IF m # 0 THEN Lower(FirstColumn(lines[m]))
            ELSE Fallback(FirstColumn(lines[1]))
        Scan(lines) ==
            IF lines = <<>> THEN None
            ELSE Pick(lines,
                      IF Truthy(target_filename)
                      THEN FirstIndex({ i \in DOMAIN lines :
                              LineNamesTarget(lines[i], Lower(target_filename)) })
                      ELSE 0)
    IN  Scan(SidecarLines(contents))

verify_sha256_no_compare(bytes, expected_sha256) ==
    Truthy(expected_sha256)

verify_sha256(bytes, expected_sha256) ==
    IF ~Truthy(expected_sha256) THEN FALSE
    ELSE compute_sha256(bytes) = Lower(expected_sha256)

----------------------------------------------------------------------------
(* String literals of the source, as character sequences *)

LINUX == <<"l","i","n","u","x">>
WINDOWS == <<"w","i","n","d","o","w","s">>
DOT_SHA256 == <<".","s","h","a","2","5","6">>
DOT_ZIP == <<".","z","i","p">>
DOT_TAR_GZ == <<".","t","a","r",".","g","z">>
DOT_DMG == <<".","d","m","g">>
DOT_EXE == <<".","e","x","e">>
DOT_PART == <<".","p","a","r","t">>
DOT_TMP == <<".","t","m","p">>

----------------------------------------------------------------------------
(* Versions: packaging.version.parse on dotted-numeric strings *)

DigitVal ==
    [c \in {"0","1","2","3","4","5","6","7","8","9"} |->
        CASE c = "0" -> 0 [] c = "1" -> 1 [] c = "2" -> 2 [] c = "3" -> 3
          [] c = "4" -> 4 [] c = "5" -> 5 [] c = "6" -> 6 [] c = "7" -> 7
          [] c = "8" -> 8 [] c = "9" -> 9]

RECURSIVE Decimal(_)
Decimal(digits) ==
    IF digits = <<>> THEN 0
    ELSE 10 * Decimal(SubSeq(digits, 1, Len(digits) - 1)) + DigitVal[digits[Len(digits)]]

\* whether version.parse(s) succeeds: an optional leading "v", then numbers
\* separated by single dots
VersionParses(s) ==
    LET Dotted(body) ==
            /\ body # <<>>
            /\ \A i \in 1..Len(body) : body[i] \in DOMAIN DigitVal \cup {"."}
            /\ body[1] # "." /\ body[Len(body)] # "."
            /\ \A i \in 1..(Len(body) - 1) : ~(body[i] = "." /\ body[i + 1] = ".")
    IN  Dotted(IF s # <<>> /\ s[1] = "v" THEN Tail(s) ELSE s)

\* the release tuple of a version that parses
ReleaseTuple(s) ==
    LET Values(comps) == [i \in 1..Len(comps) |-> Decimal(comps[i])]
    IN  Values(Tokens(s, {".", "v"}))

\* a[i], the shorter tuple counting as padded with zeros
Padded(a, i) == IF i <= Len(a) THEN a[i] ELSE 0

\* comparison over the segments both tuples have
TupleGreaterUnpadded(a, b) ==
    \E i \in 1..Min({Len(a), Len(b)}) :
        /\ a[i] > b[i]
        /\ \A j \in 1..(i - 1) : a[j] = b[j]

\* tuple comparison of release segments
TupleGreater(a, b) ==
    \E i \in 1..(Len(a) + Len(b)) :
        /\ Padded(a, i) > Padded(b, i)
        /\ \A j \in 1..(i - 1) : Padded(a, j) = Padded(b, j)

\* version.parse(a) > version.parse(b), False when either raises InvalidVersion
version_gt(a, b) ==
    /\ VersionParses(a)
    /\ VersionParses(b)
    /\ TupleGreater(ReleaseTuple(a), ReleaseTuple(b))

\* version of the running build
CURRENT_VERSION == <<"1", ".", "0">>

----------------------------------------------------------------------------
(* Platform *)

\* platform.machine().lower()
machine == <<"x","8","6","_","6","4">>

\* update_client._platform_os_key
_platform_os_key(o) == IF o = "windows" THEN WINDOWS ELSE LINUX

\* update_client._platform_arch_key
_platform_arch_key == machine

\* update_manager._platform_tags
_platform_tags(o) ==
    IF o = "windows" THEN <<WINDOWS, machine, <<"w","i","n">>>> ELSE <<LINUX, machine>>

----------------------------------------------------------------------------
(* URLs: urlparse(url) gives scheme and netloc *)

Url(scheme, netloc, path) == [scheme |-> scheme, netloc |-> netloc, path |-> path]
NoUrl == Url("", "", "")

ALLOWED_HOSTS == {"api.github.com", "github.com", "objects.githubusercontent.com"}

RELEASES_URL == Url("https", "api.github.com", "/repos/releases")

_is_allowed_url(url) ==
    IF url.scheme # "https" THEN FALSE ELSE url.netloc \in ALLOWED_HOSTS

----------------------------------------------------------------------------
(* Release assets *)

is_sidecar(name_lower) ==
    \/ EndsWith(name_lower, DOT_SHA256)
    \/ EndsWith(name_lower, <<".","m","a","n","i","f","e","s","t",".","j","s","o","n">>)

is_archive(name_lower) ==
    \E ext \in {DOT_ZIP, DOT_TAR_GZ, <<".","t","g","z">>, DOT_DMG, <<".","p","k","g">>,
                <<".","d","e","b">>, <<".","r","p","m">>} :
        EndsWith(name_lower, ext)

is_direct_binary(o, name) ==
    IF o = "windows" THEN EndsWith(Lower(name), DOT_EXE)
    ELSE IF is_sidecar(Lower(name)) \/ is_archive(Lower(name)) THEN FALSE
    ELSE TRUE

\* update_client._pick_main_asset.score: (token_score, size)
score(o, asset) ==
    LET Points(lower, os_key, arch_key) ==
            (IF Contains(lower, <<"-">> \o os_key \o <<"-">> \o arch_key) THEN 6 ELSE 0)
            + (IF Contains(lower, <<"-">> \o os_key) THEN 3 ELSE 0)
            + (IF Contains(lower, arch_key) THEN 2 ELSE 0)
            + (IF Contains(lower, <<"o","f","f","l","i","n","e","s","c","o","u","t","i","n","g",
                                  "m","a","n","a","g","e","r">>) THEN 1 ELSE 0)
    IN  << Points(Lower(asset.name), _platform_os_key(o), _platform_arch_key), asset.size >>

\* tuple order on scores
ScoreGreater(s, t) == s[1] > t[1] \/ (s[1] = t[1] /\ s[2] > t[2])

NoAsset == [name |-> None, url |-> NoUrl, size |-> 0, bytes |-> "", text |-> <<>>]

\* candidates.sort(key=score, reverse=True)[0]: the sort is stable, so this is
\* the first candidate, in list order, that no other candidate outscores
_pick_main_asset(o, assets) ==
    LET Best(candidates, scores) ==
            IF candidates = <<>> THEN NoAsset
            ELSE candidates[Min({ i \in 1..Len(candidates) :
                                    \A j \in 1..Len(candidates) :
                                        ~ScoreGreater(scores[j], scores[i]) })]
        Rank(candidates) ==
            Best(candidates, [i \in 1..Len(candidates) |-> score(o, candidates[i])])
    IN  Rank(SelectSeq(assets,
            LAMBDA a : ~is_sidecar(Lower(a.name)) /\ is_direct_binary(o, a.name)))

_find_sha256_asset(assets, target_name) ==
    LET Choose(exact, anysum) ==
            IF exact # 0 THEN assets[exact]
            ELSE IF anysum # 0 THEN assets[anysum]
            ELSE NoAsset
        Named(n, lowered) ==
            \/ n = lowered \o DOT_SHA256
            \/ (EndsWith(n, DOT_SHA256) /\ Contains(n, lowered))
    IN  Choose(FirstIndex({ i \in DOMAIN assets :
                            Named(Lower(assets[i].name), Lower(target_name)) }),
               FirstIndex({ i \in DOMAIN assets :
                            EndsWith(Lower(assets[i].name), DOT_SHA256) }))

\* update_manager._pick_release_asset
_pick_release_asset(o, assets) ==
    LET Choose(byTag, byExt) ==
            IF assets = <<>> THEN NoAsset
            ELSE IF byTag # 0 THEN assets[byTag]
            ELSE IF byExt # 0 THEN assets[byExt]
            ELSE NoAsset
        Tagged(name, tags) ==
            /\ ~EndsWith(name, DOT_SHA256)
            /\ ~EndsWith(name, <<".","t","x","t">>)
            /\ ~Contains(name, <<"c","h","e","c","k","s","u","m">>)
            /\ \E t \in 1..Len(tags) : Contains(name, tags[t])
        Packaged(name) ==
            \E ext \in {DOT_ZIP, DOT_TAR_GZ, DOT_EXE, DOT_DMG,
                         <<".","a","p","p","i","m","a","g","e">>} :
                EndsWith(name, ext)
    IN  Choose(FirstIndex({ i \in DOMAIN assets :
                            Tagged(Lower(assets[i].name), _platform_tags(o)) }),
               FirstIndex({ i \in DOMAIN assets : Packaged(Lower(assets[i].name)) }))

\* pathlib.Path(name).suffix: from the last dot, when that dot is neither the
\* first nor the last character
Suffix(name) ==
    LET From(dots) ==
            IF dots = {} \/ name[Len(name)] = "." THEN <<>>
            ELSE SubSeq(name, CHOOSE i \in dots : \A j \in dots : j <= i, Len(name))
    IN  From({ i \in 2..Len(name) : name[i] = "." })

\* update_manager._is_direct_executable_asset
_is_direct_executable_asset(o, name) ==
    LET Direct(suffix) ==
            IF suffix \in {DOT_EXE, <<".","a","p","p","i","m","a","g","e">>} THEN TRUE
            ELSE IF suffix # <<>> THEN FALSE
            ELSE o # "windows"
    IN  Direct(Lower(Suffix(name)))

----------------------------------------------------------------------------
(* The world an operation runs in, and the log of what it did *)

NETWORK_RETRIES == 3

CHECK_COOLDOWN_SECONDS == 86400

NoPath == <<>>

\* UPDATES_DIR / name
UpdatesPath(name) == <<"updates", name>>

\* helper: what apply_with_helper has done, nothing at the start of an operation
EmptyLog == [requests |-> <<>>, outcomes |-> <<>>, svcWrites |-> <<>>, mgrWrites |-> <<>>,
             fsWrites |-> <<>>, verified |-> FALSE,
             helper |-> [called |-> FALSE, writable |-> "unknown", script |-> FALSE,
                         launched |-> FALSE, elevated |-> FALSE, asset |-> NoPath,
                         bytes |-> ""]]

Ret(w, v) == [w |-> w, ret |-> v]

Logged(w, field, entry) ==
    [w EXCEPT !.log = [@ EXCEPT ![field] = Append(@, entry)]]

Exists(w, path) == path \in DOMAIN w.fs

\* open(path, "wb") ... write: the file at path now holds content
WriteFile(w, path, content) ==
    [w EXCEPT !.fs = [q \in DOMAIN @ \cup {path} |-> IF q = path THEN content ELSE @[q]],
              !.log = [@ EXCEPT !.fsWrites = Append(@, path)]]

\* Path.unlink
Unlink(w, path) ==
    [w EXCEPT !.fs = [q \in DOMAIN @ \ {path} |-> @[q]],
              !.log = [@ EXCEPT !.fsWrites = Append(@, path)]]

\* Path.replace(src, dst)
Replace(w, src, dst) == Unlink(WriteFile(w, dst, w.fs[src]), src)

Binary(bytes) == [bytes |-> bytes, text |-> <<>>]

\* what the asset's URL serves
Body(asset) == [bytes |-> asset.bytes, text |-> asset.text]

\* what a stream cut mid-transfer leaves behind
Partial(content) ==
    Binary(CASE content.bytes = "B1" -> "B1~"
             [] content.bytes = "B2" -> "B2~"
             [] OTHER -> "T~")

----------------------------------------------------------------------------
(* utils/update_state.py *)

DEFAULT_UPDATE_STATE ==
    [status |-> "idle", progress |-> 0, error |-> NoneStr, asset_path |-> NoPath,
     checksum_path |-> NoPath, expected_sha256 |-> None, latest_version |-> None,
     download_url |-> NoneStr, last_checked_at |-> NoTime, updated_at |-> NoTime]

\* What a state file holds: kind "absent" (no file), "json" (the text of a JSON
\* object, rec), "list" (valid JSON that is not an object, such as []),
\* "empty" (zero bytes), "truncated" (the first part of an object's text),
\* "text" (not JSON). json.load parses the first two kinds and raises on the
\* other three.
JsonFile(rec) == [kind |-> "json", rec |-> rec]

AbsentFile == [kind |-> "absent", rec |-> DEFAULT_UPDATE_STATE]

\* dict.update: the fields of changes override those of state
Merge(state, changes) ==
    [f \in DOMAIN state |-> IF f \in DOMAIN changes THEN changes[f] ELSE state[f]]

save_update_state(w, state) ==
    [w EXCEPT !.svc = JsonFile(Merge(DEFAULT_UPDATE_STATE, state)),
              !.log = [@ EXCEPT !.svcWrites = Append(@, state.status)]]

load_update_state(w) ==
    IF w.svc.kind = "absent"
    THEN Ret(save_update_state(w, DEFAULT_UPDATE_STATE), DEFAULT_UPDATE_STATE)
    ELSE IF w.svc.kind = "json"
    THEN Ret(w, Merge(DEFAULT_UPDATE_STATE, w.svc.rec))
    ELSE Ret(w, DEFAULT_UPDATE_STATE)

update_state(w, changes) ==
    LET Save(w1, state) == Ret(save_update_state(w1, state), state)
        Patch(l) == Save(l.w, [Merge(l.ret, changes) EXCEPT !.updated_at = w.t])
    IN  Patch(load_update_state(w))

----------------------------------------------------------------------------
(* utils/update_client.py: network *)

\* number of attempts a retry loop makes on a script of per-attempt outcomes:
\* it stops at the first "ok", and after NETWORK_RETRIES attempts
\* a loop that never stops early
AttemptsAlwaysAll(script, attempt) == NETWORK_RETRIES

RECURSIVE AttemptsMade(_, _)
AttemptsMade(script, attempt) ==
    IF script[attempt] = "ok" \/ attempt = NETWORK_RETRIES THEN attempt
    ELSE AttemptsMade(script, attempt + 1)

\* n requests for url, with the outcomes the script gives them
LogRequests(w, url, script, n) ==
    [w EXCEPT !.log = [@ EXCEPT !.requests = @ \o [i \in 1..n |-> url],
                                !.outcomes = @ \o [i \in 1..n |-> script[i]]]]

\* one request for url and its outcome
LogRequest(w, url, outcome) ==
    Logged(Logged(w, "requests", url), "outcomes", outcome)

\* ret.ok = FALSE: the last RequestException is raised
_retry_get_json(w, url, script) ==
    LET Made(n) == Ret(LogRequests(w, url, script, n), [ok |-> script[n] = "ok", data |-> w.registry])
    IN  Made(AttemptsMade(script, 1))

_is_newer_version(tag_name) ==
    LET Newer(clean_tag) ==
            IF clean_tag = <<>> THEN FALSE ELSE version_gt(clean_tag, CURRENT_VERSION)
    IN  Newer(LStrip(tag_name, {"v"}))

NoMeta ==
    [update_available |-> FALSE, latest_version |-> None,
     download_url |-> "releases", asset |-> NoAsset, checksum_asset |-> NoAsset]

\* lines 148-166: the dict built for the release the loop stops at
DescribeRelease(o, release) ==
    LET Describe(latest_version, main_asset) ==
            [update_available |-> _is_newer_version(release.tag_name),
             latest_version |-> IF latest_version = <<>> THEN None ELSE latest_version,
             download_url |-> release.html_url,
             asset |-> main_asset,
             checksum_asset |->
                IF main_asset = NoAsset THEN NoAsset
                ELSE _find_sha256_asset(release.assets, main_asset.name)]
    IN  Describe(LStrip(release.tag_name, {"v"}), _pick_main_asset(o, release.assets))

\* the first entry of the list, whatever its flags
fetch_first_release(w, script) ==
    LET Listed(r) ==
            IF ~r.ret.ok THEN Ret(r.w, [ok |-> FALSE, meta |-> NoMeta])
            ELSE IF r.ret.data = <<>> THEN Ret(r.w, [ok |-> TRUE, meta |-> NoMeta])
            ELSE Ret(r.w, [ok |-> TRUE, meta |-> DescribeRelease(w.os, r.ret.data[1])])
    IN  Listed(_retry_get_json(w, RELEASES_URL, script))

\* ret.ok = FALSE: _retry_get_json raised
fetch_latest_stable_release(w, script) ==
    LET Select(r, stable) ==
            IF ~r.ret.ok THEN Ret(r.w, [ok |-> FALSE, meta |-> NoMeta])
            ELSE IF stable = 0 THEN Ret(r.w, [ok |-> TRUE, meta |-> NoMeta])
            ELSE Ret(r.w, [ok |-> TRUE, meta |-> DescribeRelease(w.os, r.ret.data[stable])])
        Listed(r) ==
            Select(r, FirstIndex({ i \in DOMAIN r.ret.data :
                                   ~(r.ret.data[i].draft \/ r.ret.data[i].prerelease) }))
    IN  Listed(_retry_get_json(w, RELEASES_URL, script))

\* One attempt of the streaming loop of download_file: "connect" fails before
\* the destination is opened, "midstream" after part of the body was written.
\* ret = FALSE: the last RequestException is raised
RECURSIVE download_file(_, _, _, _, _)
download_file(w, asset, destination, script, attempt) ==
    LET Failed(w2) ==
            IF attempt = NETWORK_RETRIES THEN Ret(w2, FALSE)
            ELSE download_file(w2, asset, destination, script, attempt + 1)
        Requested(w1) ==
            IF script[attempt] = "ok"
            THEN Ret(WriteFile(w1, destination, Body(asset)), TRUE)
            ELSE IF script[attempt] = "midstream"
            THEN Failed(WriteFile(w1, destination, Partial(Body(asset))))
            ELSE Failed(w1)
    IN  Requested(LogRequest(w, asset.url, script[attempt]))

----------------------------------------------------------------------------
(* What an entry point returns *)

NoState == [status |-> "None", progress |-> 0, error |-> NoneStr,
            asset_path |-> NoPath, last_checked_at |-> NoTime]

\* {"success": ..., "error": ..., "mode": ...}
Outcome(success, error, md) ==
    [success |-> success, error |-> error, mode |-> md, requires_elevation |-> FALSE,
     update_available |-> FALSE, latest_version |-> None, state |-> NoState]


----------------------------------------------------------------------------
(* utils/update_service.py *)

_is_packaged_mode(w) == w.mode = "packaged"

_build_status_payload(w, state) ==
    [success |-> TRUE, error |-> NoneStr,
     mode |-> IF _is_packaged_mode(w) THEN "packaged" ELSE "source",
     requires_elevation |-> FALSE,
     update_available |->
        IF Truthy(state.latest_version)
        THEN version_gt(state.latest_version, CURRENT_VERSION) ELSE FALSE,
     latest_version |-> state.latest_version,
     state |-> [status |-> state.status, progress |-> state.progress,
                error |-> state.error, asset_path |-> state.asset_path,
                last_checked_at |-> state.last_checked_at]]

should_refresh_ignoring_cooldown(force_check, last_checked, t) == TRUE

\* lines 74-81 of get_update_status
should_refresh(force_check, last_checked, t) ==
    IF force_check THEN TRUE
    ELSE IF last_checked = NoTime THEN TRUE
    ELSE t - last_checked >= CHECK_COOLDOWN_SECONDS

get_update_status(w, force_check, script) ==
    LET Return(u) == Ret(u.w, _build_status_payload(u.w, u.ret))
        \* lines 87-110: the fetch returned, or raised
        Record(f) ==
            Return(update_state(f.w,
                IF f.ret.ok
                THEN [status |-> IF f.ret.meta.update_available
                                 THEN "available" ELSE "up_to_date",
                      latest_version |-> f.ret.meta.latest_version,
                      download_url |-> f.ret.meta.download_url,
                      error |-> NoneStr,
                      last_checked_at |-> w.t]
                ELSE [status |-> "error",
                      error |-> "Network error while checking updates",
                      last_checked_at |-> w.t]))
        Decide(l) ==
            IF ~should_refresh(force_check, l.ret.last_checked_at, w.t)
            THEN Return(l)
            ELSE Record(fetch_latest_stable_release(
                    update_state(l.w, [status |-> "checking", error |-> NoneStr]).w,
                    script))
    IN  Decide(load_update_state(w))

\* the two except branches of download_latest_update
DownloadFailed(w) ==
    Ret(update_state(w, [status |-> "error", progress |-> 0,
                         error |-> "Download failed"]).w,
        Outcome(FALSE, "Download failed", "packaged"))

\* lines 140-183 of download_latest_update: staging the asset and its sidecar
StageAsset(w, metadata, dlScript, sumScript) ==
    LET Return(u) ==
            Ret(u.w, [Outcome(TRUE, NoneStr, "packaged") EXCEPT
                        !.latest_version = u.ret.latest_version,
                        !.state = [NoState EXCEPT !.asset_path = u.ret.asset_path]])
        \* lines 168-177
        Finish(w5, final_path, checksum_path, expected_sha256) ==
            Return(update_state(w5,
                [status |-> "downloaded", progress |-> 100,
                 asset_path |-> final_path,
                 checksum_path |-> checksum_path,
                 expected_sha256 |-> expected_sha256,
                 latest_version |-> metadata.latest_version,
                 download_url |-> metadata.download_url,
                 error |-> NoneStr]))
        \* lines 160-166
        SumFetched(s, asset_name, final_path, checksum_path) ==
            IF ~s.ret THEN DownloadFailed(s.w)
            ELSE Finish(s.w, final_path, checksum_path,
                        parse_sha256_text(s.w.fs[checksum_path].text, asset_name))
        \* lines 155-159
        Sidecar(w4, asset_name, final_path) ==
            IF metadata.checksum_asset # NoAsset /\ metadata.checksum_asset.url # NoUrl
            THEN SumFetched(
                    download_file(w4, metadata.checksum_asset,
                        UpdatesPath(IF Truthy(metadata.checksum_asset.name)
                                    THEN metadata.checksum_asset.name
                                    ELSE asset_name \o DOT_SHA256),
                        sumScript, 1),
                    asset_name, final_path,
                    UpdatesPath(IF Truthy(metadata.checksum_asset.name)
                                THEN metadata.checksum_asset.name
                                ELSE asset_name \o DOT_SHA256))
            ELSE Finish(w4, final_path, NoPath, None)
        \* lines 152-153
        Fetched(d, asset_name, part_path, final_path) ==
            IF ~d.ret THEN DownloadFailed(d.w)
            ELSE Sidecar(Replace(update_state(d.w, [progress |-> 85]).w, part_path, final_path),
                         asset_name, final_path)
        \* lines 147-151
        Download(w1, asset_name, part_path, final_path) ==
            Fetched(download_file(
                        update_state(w1, [status |-> "downloading", progress |-> 5,
                                          error |-> NoneStr]).w,
                        metadata.asset, part_path, dlScript, 1),
                    asset_name, part_path, final_path)
        \* lines 144-148
        Begin(asset_name, part_path) ==
            Download(IF Exists(w, part_path) THEN Unlink(w, part_path) ELSE w,
                     asset_name, part_path, UpdatesPath(asset_name))
        Named(asset_name) == Begin(asset_name, UpdatesPath(asset_name \o DOT_PART))
    IN  Named(IF Truthy(metadata.asset.name) THEN metadata.asset.name
              ELSE <<"u","p","d","a","t","e",".","e","x","e">>)

download_latest_update(w, checkScript, fetchScript, dlScript, sumScript) ==
    LET Fetched(f) ==
            IF ~f.ret.ok THEN DownloadFailed(f.w)
            ELSE IF f.ret.meta.asset = NoAsset \/ f.ret.meta.asset.url = NoUrl
            THEN DownloadFailed(f.w)
            ELSE StageAsset(f.w, f.ret.meta, dlScript, sumScript)
        Checked(latest) ==
            IF ~latest.ret.update_available
            THEN Ret(latest.w, Outcome(FALSE, "No update available.", latest.ret.mode))
            ELSE Fetched(fetch_latest_stable_release(latest.w, fetchScript))
    IN  IF ~_is_packaged_mode(w)
        THEN Ret(w, Outcome(FALSE, "Update download is unavailable in source mode.", "source"))
        ELSE Checked(get_update_status(w, TRUE, checkScript))

----------------------------------------------------------------------------
(* utils/update_apply.py *)

\* the helper script is written for downloaded_asset
ScriptWritten(w, downloaded_asset) ==
    [w EXCEPT !.log = [@ EXCEPT !.helper = [@ EXCEPT !.script = TRUE,
                                                     !.asset = downloaded_asset]]]

\* subprocess.Popen on the helper script: it will copy the bytes now staged
HelperLaunched(w, downloaded_asset, elevated) ==
    [w EXCEPT !.log = [@ EXCEPT !.helper = [@ EXCEPT !.launched = TRUE,
                                                     !.elevated = elevated,
                                                     !.bytes = w.fs[downloaded_asset].bytes]]]

\* what _can_write_target(current_exe) answered
CanWriteProbed(w, writable) ==
    [w EXCEPT !.log = [@ EXCEPT !.helper = [@ EXCEPT !.writable =
                                                IF writable THEN "yes" ELSE "no"]]]

\* the helper written and launched on every platform, writable or not
apply_with_helper_unchecked(w, downloaded_asset, writable, popenOk) ==
    LET Result(success, elev, msg, raised) ==
            [success |-> success, requires_elevation |-> elev, error |-> msg,
             raised |-> raised]
        Launch(written, elev) ==
            IF ~popenOk THEN Ret(written, Result(FALSE, FALSE, "Apply failed", TRUE))
            ELSE Ret(HelperLaunched(written, downloaded_asset, elev),
                     Result(TRUE, elev, NoneStr, FALSE))
        Called(c) ==
            IF ~Exists(c, downloaded_asset)
            THEN Ret(c, Result(FALSE, FALSE, "Downloaded update asset not found.", FALSE))
            ELSE Launch(CanWriteProbed(ScriptWritten(c, downloaded_asset), writable), FALSE)
    IN  Called([w EXCEPT !.log = [@ EXCEPT !.helper = [@ EXCEPT !.called = TRUE]]])

\* ret.raised: subprocess.Popen raised
apply_with_helper(w, downloaded_asset, writable, popenOk) ==
    LET Result(success, elev, msg, raised) ==
            [success |-> success, requires_elevation |-> elev, error |-> msg,
             raised |-> raised]
        Launch(written, elev) ==
            IF ~popenOk THEN Ret(written, Result(FALSE, FALSE, "Apply failed", TRUE))
            ELSE Ret(HelperLaunched(written, downloaded_asset, elev),
                     Result(TRUE, elev, NoneStr, FALSE))
        Called(c) ==
            IF ~Exists(c, downloaded_asset)
            THEN Ret(c, Result(FALSE, FALSE, "Downloaded update asset not found.", FALSE))
            ELSE IF c.os = "windows"
            THEN Launch(CanWriteProbed(ScriptWritten(c, downloaded_asset), writable),
                        ~writable)
            ELSE IF ~writable
            THEN Ret(CanWriteProbed(c, writable),
                     Result(FALSE, FALSE, "Install location is not writable on this OS.", FALSE))
            ELSE Launch(ScriptWritten(CanWriteProbed(c, writable), downloaded_asset), FALSE)
    IN  Called([w EXCEPT !.log = [@ EXCEPT !.helper = [@ EXCEPT !.called = TRUE]]])

----------------------------------------------------------------------------
(* utils/update_service.py: apply *)

\* the failure recorded without the error status
ApplyFailedKeepingStatus(w, msg) ==
    Ret(update_state(w, [error |-> msg]).w, Outcome(FALSE, msg, "packaged"))

\* update_state(status="error", error=msg) and the failure dict
ApplyFailed(w, msg) ==
    Ret(update_state(w, [status |-> "error", error |-> msg]).w,
        Outcome(FALSE, msg, "packaged"))

apply_downloaded_update(w, writable, popenOk) ==
    LET \* lines 245-259
        Applied(applied) ==
            IF applied.ret.raised THEN ApplyFailed(applied.w, "Apply failed")
            ELSE IF ~applied.ret.success THEN ApplyFailed(applied.w, applied.ret.error)
            ELSE Ret(update_state(applied.w, [status |-> "applied", error |-> NoneStr]).w,
                     [Outcome(TRUE, NoneStr, "packaged") EXCEPT
                        !.requires_elevation = applied.ret.requires_elevation])
        \* lines 234-244
        Verified(w1, asset_path, ok) ==
            IF ~ok THEN ApplyFailed(w1, "Checksum mismatch. Update aborted.")
            ELSE Applied(apply_with_helper(
                    update_state([w1 EXCEPT !.log = [@ EXCEPT !.verified = TRUE]],
                                 [status |-> "applying", progress |-> 100,
                                  error |-> NoneStr]).w,
                    asset_path, writable, popenOk))
        \* lines 210-232
        Loaded(w1, asset_path, expected_sha256) ==
            IF asset_path = NoPath
            THEN Ret(w1, Outcome(FALSE, "No downloaded update found.", "packaged"))
            ELSE IF ~Truthy(expected_sha256)
            THEN Ret(w1, Outcome(FALSE, "Missing SHA-256 sidecar checksum; cannot apply update.",
                                 "packaged"))
            ELSE IF ~Exists(w1, asset_path)
            THEN ApplyFailed(w1, "Downloaded asset is missing.")
            ELSE Verified(w1, asset_path,
                          verify_sha256(w1.fs[asset_path].bytes, expected_sha256))
        Start(l) == Loaded(l.w, l.ret.asset_path, l.ret.expected_sha256)
    IN  IF ~_is_packaged_mode(w)
        THEN Ret(w, Outcome(FALSE, "Update apply is unavailable in source mode.", "source"))
        ELSE Start(load_update_state(w))

----------------------------------------------------------------------------
(* utils/version_check.py *)

\* One GET of the releases list, no retry; outcome "ok" is a 200 response.
\* The first entry of the list is taken whatever its draft/prerelease flags.
check_for_updates(w, outcome) ==
    LET Latest(w1, latest_version) ==
            Ret(w1, [update_available |->
                        IF latest_version # <<>>
                        THEN version_gt(latest_version, CURRENT_VERSION) ELSE FALSE,
                     latest_version |-> latest_version,
                     error |-> NoneStr])
        Responded(w1) ==
            IF outcome # "ok"
            THEN Ret(w1, [update_available |-> FALSE, latest_version |-> None,
                          error |-> "Network error"])
            ELSE IF w.registry = <<>>
            THEN Ret(w1, [update_available |-> FALSE, latest_version |-> None,
                          error |-> "No releases found"])
            ELSE Latest(w1, LStrip(w.registry[1].tag_name, {"v"}))
    IN  Responded(LogRequest(w, RELEASES_URL, outcome))

----------------------------------------------------------------------------
(* utils/update_manager.py *)

MgrDefault ==
    [status |-> "None", version |-> None, asset_name |-> None, asset_path |-> NoPath,
     sha256 |-> None, error |-> NoneStr, latest_version |-> None,
     progress_percent |-> 0, updated_at |-> NoTime]

\* the payload replaces the whole file
_write_state(w, payload) ==
    Logged([w EXCEPT !.mgr = JsonFile([Merge(MgrDefault, payload) EXCEPT !.updated_at = w.t])],
           "mgrWrites", payload.status)

\* json.loads gives back whatever JSON value the file holds: for a file
\* holding a JSON value that is not an object (kind "list") the caller gets
\* that value, a list, not a dict; only a missing file and text that does
\* not parse give {"status": "idle"}
_read_state(w) ==
    IF w.mgr.kind \in {"json", "list"} THEN w.mgr.rec
    ELSE [MgrDefault EXCEPT !.status = "idle"]

is_packaged_mode(w) == w.mode = "packaged"

\* update_manager.get_update_status
mgr_get_update_status(w, outcome) ==
    LET Status(check, state, md) ==
            Ret(check.w,
                [success |-> TRUE, error |-> check.ret.error, mode |-> md,
                 requires_elevation |-> FALSE,
                 update_available |-> IF md = "source" THEN FALSE
                                      ELSE check.ret.update_available,
                 latest_version |-> check.ret.latest_version,
                 state |-> [NoState EXCEPT !.status = state.status,
                                           !.asset_path = state.asset_path]])
        Checked(check) ==
            Status(check, _read_state(check.w),
                   IF is_packaged_mode(w) THEN "packaged" ELSE "source")
    IN  Checked(check_for_updates(w, outcome))

\* ret.ok = FALSE: the last RequestException is raised
_get_with_retries(w, url, script) ==
    LET Made(n) == Ret(LogRequests(w, url, script, n), [ok |-> script[n] = "ok", data |-> w.registry])
    IN  Made(AttemptsMade(script, 1))

\* The retry loop of _download_file, after the allow-list check. An attempt
\* that gets a response writes the body to dest and reports progress; a failed
\* attempt unlinks dest.
RECURSIVE MgrDownloadAttempts(_, _, _, _, _, _)
MgrDownloadAttempts(w, asset, dest, script, attempt, progress) ==
    LET Failed(w2) ==
            IF attempt = NETWORK_RETRIES THEN Ret(w2, "network")
            ELSE MgrDownloadAttempts(w2, asset, dest, script, attempt + 1, progress)
        Cleaned(w2) == Failed(IF Exists(w2, dest) THEN Unlink(w2, dest) ELSE w2)
        Streamed(reported) ==
            IF script[attempt] = "ok"
            THEN Ret(_write_state(WriteFile(reported, dest, Body(asset)),
                                  Merge(progress, [progress_percent |-> 100])), "ok")
            ELSE Cleaned(reported)
        Requested(w1) ==
            IF script[attempt] = "connect" THEN Cleaned(w1)
            ELSE Streamed(_write_state(WriteFile(w1, dest, Partial(Body(asset))),
                                       Merge(progress, [progress_percent |-> 50])))
    IN  Requested(LogRequest(w, asset.url, script[attempt]))

\* ret: "ok", "network" (RequestException re-raised), "forbidden" (ValueError)
_download_file(w, asset, dest, script, version, asset_name) ==
    IF ~_is_allowed_url(asset.url) THEN Ret(w, "forbidden")
    ELSE MgrDownloadAttempts(w, asset, dest, script, 1,
            [status |-> "downloading", version |-> version, asset_name |-> asset_name,
             progress_percent |-> 0])

\* the except branch of download_latest_release_asset
MgrDownloadFailed(w) ==
    Ret(_write_state(w, [status |-> "error", error |-> "Download failed"]),
        Outcome(FALSE, "Failed to download update", "None"))

\* lines 340-411 of download_latest_release_asset: staging releases[0]
MgrStageAsset(w, release, dlScript) ==
    LET \* lines 385-411
        Finish(w2, latest_version, asset_name, target_file) ==
            Ret(_write_state(w2,
                    [status |-> "downloaded", version |-> latest_version,
                     asset_name |-> asset_name, asset_path |-> target_file,
                     sha256 |-> compute_sha256(w2.fs[target_file].bytes),
                     progress_percent |-> 100]),
                [Outcome(TRUE, NoneStr, "None") EXCEPT
                    !.latest_version = latest_version,
                    !.state = [NoState EXCEPT !.asset_path = target_file]])
        \* line 383
        Fetched(d, latest_version, asset_name, temp_file, target_file) ==
            IF d.ret # "ok" THEN MgrDownloadFailed(d.w)
            ELSE Finish(Replace(d.w, temp_file, target_file),
                        latest_version, asset_name, target_file)
        \* lines 362-382
        Download(asset, latest_version, asset_name) ==
            Fetched(_download_file(
                        _write_state(Logged(w, "fsWrites", <<"updates", latest_version>>),
                            [status |-> "downloading", version |-> latest_version,
                             asset_name |-> asset_name, progress_percent |-> 0]),
                        asset, <<"updates", latest_version, asset_name \o DOT_TMP>>,
                        dlScript, latest_version, asset_name),
                    latest_version, asset_name,
                    <<"updates", latest_version, asset_name \o DOT_TMP>>,
                    <<"updates", latest_version, asset_name>>)
        \* lines 343-354
        Picked(asset, latest_version) ==
            IF asset = NoAsset
            THEN Ret(w, Outcome(FALSE, "No matching release asset found for this platform.",
                                "None"))
            ELSE IF asset.url = NoUrl
            THEN Ret(w, Outcome(FALSE, "Release asset has no download URL.", "None"))
            ELSE Download(asset, latest_version,
                          IF Truthy(asset.name) THEN asset.name
                          ELSE <<"u","p","d","a","t","e",".","b","i","n">>)
    IN  Picked(_pick_release_asset(w.os, release.assets), LStrip(release.tag_name, {"v"}))

download_latest_release_asset(w, checkOutcome, listScript, dlScript) ==
    LET Listed(response) ==
            IF ~response.ret.ok THEN MgrDownloadFailed(response.w)
            ELSE IF response.ret.data = <<>>
            THEN Ret(response.w, Outcome(FALSE, "No releases found.", "None"))
            ELSE MgrStageAsset(response.w, response.ret.data[1], dlScript)
        Checked(check) ==
            IF ~check.ret.update_available
            THEN Ret(check.w, Outcome(FALSE, "No update available.", "None"))
            ELSE Listed(_get_with_retries(check.w, RELEASES_URL, listScript))
    IN  Checked(check_for_updates(w, checkOutcome))

\* lines 474-536 of apply_update_now: the asset checks, the helper script, the
\* state write
MgrLaunch(w, asset_path, latest_version, exeExists, launchOk) ==
    LET Written(written) ==
            IF ~launchOk
            THEN Ret(written, Outcome(FALSE, "Failed to launch update helper", "packaged"))
            ELSE Ret(_write_state(HelperLaunched(written, asset_path, FALSE),
                        [status |-> "applying", asset_path |-> asset_path,
                         latest_version |-> latest_version]),
                     [Outcome(TRUE, NoneStr, "packaged") EXCEPT
                        !.state = [NoState EXCEPT !.asset_path = asset_path]])
        Named(asset_name) ==
            IF \E ext \in {DOT_ZIP, DOT_TAR_GZ, DOT_DMG} : EndsWith(Lower(asset_name), ext)
            THEN Ret(w, Outcome(FALSE, "Downloaded asset is an archive/installer and cannot be auto-applied.", "packaged"))
            ELSE IF ~_is_direct_executable_asset(w.os, asset_name)
            THEN Ret(w, Outcome(FALSE, "Downloaded asset is not a direct executable for auto-apply.", "packaged"))
            ELSE IF ~exeExists
            THEN Ret(w, Outcome(FALSE, "Current executable path is missing.", "packaged"))
            ELSE Written(ScriptWritten(
                    [w EXCEPT !.log = [@ EXCEPT !.helper = [@ EXCEPT !.called = TRUE]]],
                    asset_path))
    IN  Named(asset_path[Len(asset_path)])

apply_update_now(w, checkOutcome, dlCheckOutcome, listScript, dlScript, exeExists, launchOk) ==
    LET \* lines 459-472
        Downloaded(download, latest_version) ==
            IF ~download.ret.success
            THEN Ret(download.w, Outcome(FALSE, download.ret.error, "packaged"))
            ELSE IF download.ret.state.asset_path = NoPath
                    \/ ~Exists(download.w, download.ret.state.asset_path)
            THEN Ret(download.w, Outcome(FALSE, "Downloaded update asset path is invalid.",
                                         "packaged"))
            ELSE MgrLaunch(download.w, download.ret.state.asset_path, latest_version,
                           exeExists, launchOk)
        \* lines 445-451
        Staged(w1, state, latest_version) ==
            IF state.asset_path # NoPath /\ Exists(w1, state.asset_path)
            THEN MgrLaunch(w1, state.asset_path, latest_version, exeExists, launchOk)
            ELSE Downloaded(download_latest_release_asset(w1, dlCheckOutcome, listScript,
                                                          dlScript),
                            latest_version)
        Checked(check) ==
            IF ~check.ret.update_available
            THEN Ret(check.w, Outcome(FALSE, "No update available.", "None"))
            ELSE Staged(check.w, _read_state(check.w), check.ret.latest_version)
    IN  IF ~is_packaged_mode(w)
        THEN Ret(w, Outcome(FALSE, "Auto-update is only available when running the packaged EXE.", "source"))
        ELSE Checked(check_for_updates(w, checkOutcome))

----------------------------------------------------------------------------
(* The environment: release assets and registry listings *)

NAME_LINUX == <<"a","-","l","i","n","u","x">>
NAME_WINDOWS == <<"a","-","w","i","n","d","o","w","s",".","e","x","e">>

CDN == "objects.githubusercontent.com"

BinaryAsset(name, scheme, host, bytes) ==
    [name |-> name, url |-> Url(scheme, host, "/asset"), size |-> 10,
     bytes |-> bytes, text |-> <<>>]

\* "<digest>  <filename>\n"
SumLine(digest, filename) == digest \o <<" ", " ">> \o filename \o <<"\n">>

SidecarAsset(name, text) ==
    [name |-> name, url |-> Url("https", CDN, "/sums"), size |-> 1,
     bytes |-> "T", text |-> text]

\* a release publishing one binary per platform, each with bytes `bytes`
\* served from scheme://host, and the given sidecars
Release(tag, pre, scheme, host, bytes, sidecars) ==
    [tag_name |-> tag, draft |-> FALSE, prerelease |-> pre, html_url |-> "html",
     assets |-> <<BinaryAsset(NAME_LINUX, scheme, host, bytes),
                  BinaryAsset(NAME_WINDOWS, scheme, host, bytes)>> \o sidecars]

\* sidecars naming each binary, the Windows one in upper case
GoodSums(bytes) ==
    <<SidecarAsset(NAME_LINUX \o DOT_SHA256,
                   SumLine(compute_sha256(bytes), NAME_LINUX)),
      SidecarAsset(NAME_WINDOWS \o DOT_SHA256,
                   SumLine([i \in 1..DigestLen |-> "A"], NAME_WINDOWS))>>

V1_1 == <<"v", "1", ".", "1">>

RelSame     == Release(<<"v", "1", ".", "0">>, FALSE, "https", CDN, "B1", GoodSums("B1"))
RelNew      == Release(V1_1, FALSE, "https", CDN, "B1", GoodSums("B1"))
RelNewNoSum == Release(V1_1, FALSE, "https", CDN, "B1", <<>>)
RelPre      == Release(<<"v", "2", ".", "0">>, TRUE, "https", CDN, "B2", GoodSums("B2"))

\* the listings the releases endpoint goes through: nothing published, the
\* running version published, then a further release on top
Timeline ==
    \* a release whose download URLs leave the allow-list: the Linux binary over
    \* plain http, the Windows binary from another host
    LET RelNewBadUrl ==
            [tag_name |-> V1_1, draft |-> FALSE, prerelease |-> FALSE, html_url |-> "html",
             assets |-> <<BinaryAsset(NAME_LINUX, "http", CDN, "B2"),
                          BinaryAsset(NAME_WINDOWS, "https", "evil.example", "B2")>>
                        \o GoodSums("B1")]
    IN
    << { <<>> },
       { <<RelSame>> },
       { <<RelNew, RelSame>>,
         \* one sidecar, sums.sha256, naming another file
         <<Release(V1_1, FALSE, "https", CDN, "B1",
                   <<SidecarAsset(<<"s","u","m","s",".","s","h","a","2","5","6">>,
                                  SumLine(Rep("b"), <<"o","t","h","e","r",".","e","x","e">>))>>),
           RelSame>>,
         <<RelNewNoSum, RelSame>>,
         <<RelNewBadUrl, RelSame>>, <<RelPre, RelSame>> } >>

Registries == UNION { Timeline[i] : i \in 1..Len(Timeline) }

Stage(r) == CHOOSE i \in 1..Len(Timeline) : r \in Timeline[i]

\* per-attempt outcomes of one retried request
AllOk == <<"ok", "ok", "ok">>
FailOnce == <<"fail", "ok", "ok">>
FailAll == <<"fail", "fail", "fail">>
CutOnce == <<"midstream", "ok", "ok">>
CutAll == <<"midstream", "midstream", "midstream">>

FetchScripts == { AllOk, FailOnce, FailAll }

DownloadScripts == { AllOk, CutOnce, CutAll, <<"connect", "connect", "connect">> }

\* the network during one download_latest_release_asset: the check, the
\* releases list, the asset download
MgrDownloadNets ==
    { <<"ok", AllOk, d>> : d \in DownloadScripts }
    \cup { <<"fail", AllOk, AllOk>>, <<"ok", FailAll, AllOk>>, <<"ok", FailOnce, CutOnce>> }

MaxLines == 2

\* the text made of the given lines, each ended by a newline
RECURSIVE Text(_)
Text(lines) ==
    IF lines = <<>> THEN <<>> ELSE lines[1] \o <<"\n">> \o Text(Tail(lines))


----------------------------------------------------------------------------
(* State machine *)

TickStep == 43200
MaxTicks == 2

Idle == [op |-> "none", force |-> FALSE, log |-> EmptyLog, result |-> Outcome(FALSE, NoneStr, "None")]

World ==
    [svc |-> svcFile, mgr |-> mgrFile, fs |-> fs, log |-> EmptyLog, t |-> now,
     os |-> os, mode |-> mode, registry |-> registry]

\* no write in progress
NoWriter == [pc |-> "idle", file |-> "none", payload |-> [status |-> "None"]]

NoParse == [contents |-> <<>>, target |-> None]

Init ==
    /\ api \in {"service", "manager"}
    /\ mode \in {"packaged", "source"}
    /\ os \in {"linux", "windows"}
    /\ now = 0
    /\ registry \in Registries
    /\ svcFile = AbsentFile
    /\ mgrFile = [kind |-> "absent", rec |-> MgrDefault]
    /\ fs = <<>>
    /\ lastOp = Idle
    /\ parseIn = NoParse
    /\ parseOut = [done |-> FALSE, value |-> None]
    /\ writer = NoWriter
    /\ procs = <<>>

Commit(name, force, r) ==
    /\ svcFile' = r.w.svc
    /\ mgrFile' = r.w.mgr
    /\ fs' = r.w.fs
    /\ lastOp' = [op |-> name, force |-> force, log |-> r.w.log, result |-> r.ret]
    /\ UNCHANGED <<api, mode, os, now, registry, parseIn, parseOut, writer, procs>>

\* time passes
Tick ==
    /\ now + TickStep <= MaxTicks * TickStep
    /\ now' = now + TickStep
    /\ lastOp' = Idle
    /\ UNCHANGED <<api, mode, os, registry, svcFile, mgrFile, fs, parseIn, parseOut, writer, procs>>

\* the maintainers publish, or withdraw, releases
Publish ==
    /\ \E r \in Registries : Stage(r) > Stage(registry) /\ registry' = r
    /\ lastOp' = Idle
    /\ UNCHANGED <<api, mode, os, now, svcFile, mgrFile, fs, parseIn, parseOut, writer, procs>>

\* the updates directory is emptied by the user
RemoveStaged ==
    /\ fs # <<>>
    /\ fs' = <<>>
    /\ lastOp' = Idle
    /\ UNCHANGED <<api, mode, os, now, registry, svcFile, mgrFile, parseIn, parseOut, writer, procs>>

SvcGetUpdateStatus ==
    /\ api = "service"
    /\ \E force \in BOOLEAN, script \in FetchScripts :
        Commit("get_update_status", force, get_update_status(World, force, script))

SvcDownload ==
    \* the network during one download_latest_update: the forced check, the second
    \* fetch, the asset download, the sidecar download
    LET SvcDownloadNets ==
            { <<AllOk, AllOk, d, AllOk>> : d \in DownloadScripts }
            \cup { <<AllOk, AllOk, AllOk, CutAll>>, <<FailAll, AllOk, AllOk, AllOk>>,
                   <<AllOk, FailAll, AllOk, AllOk>>, <<FailOnce, FailOnce, CutOnce, CutOnce>> }
    IN
    /\ api = "service"
    /\ \E net \in SvcDownloadNets :
        Commit("download_latest_update", FALSE,
               download_latest_update(World, net[1], net[2], net[3], net[4]))

SvcApply ==
    /\ api = "service"
    /\ \E writable \in BOOLEAN, popenOk \in BOOLEAN :
        Commit("apply_downloaded_update", FALSE,
               apply_downloaded_update(World, writable, popenOk))

MgrGetUpdateStatus ==
    /\ api = "manager"
    /\ \E outcome \in {"ok", "fail"} :
        Commit("mgr_get_update_status", FALSE, mgr_get_update_status(World, outcome))

MgrDownload ==
    /\ api = "manager"
    /\ \E net \in MgrDownloadNets :
        Commit("download_latest_release_asset", FALSE,
               download_latest_release_asset(World, net[1], net[2], net[3]))

MgrApply ==
    \* the environment of one apply_update_now: the check, the network of the
    \* download it may run, whether sys.executable exists, whether Popen succeeds
    LET MgrApplyRuns ==
            { <<"ok", net, TRUE, TRUE>> : net \in MgrDownloadNets }
            \cup { <<"fail", <<"ok", AllOk, AllOk>>, TRUE, TRUE>>,
                   <<"ok", <<"ok", AllOk, AllOk>>, FALSE, TRUE>>,
                   <<"ok", <<"ok", AllOk, AllOk>>, TRUE, FALSE>> }
    IN
    /\ api = "manager"
    /\ \E run \in MgrApplyRuns :
        Commit("apply_update_now", FALSE,
               apply_update_now(World, run[1], run[2][1], run[2][2], run[2][3],
                                run[3], run[4]))

Next ==
    \/ Tick
    \/ Publish
    \/ RemoveStaged
    \/ SvcGetUpdateStatus
    \/ SvcDownload
    \/ SvcApply
    \/ MgrGetUpdateStatus
    \/ MgrDownload
    \/ MgrApply

Spec == Init /\ [][Next]_vars

\* parse_sha256_text on its own: the arguments are drawn at the start, one
\* step applies the function
InitParse ==
    \* sha256sum-style lines a sidecar may hold
    \* sidecar lines: a bare digest, a bare non-hex token of the same length, a
    \* short bare token, digest + name (upper-case digest, other file, binary
    \* marker), and a short token + name
    LET ParseLines ==
            { Rep("a"),
              Rep("z"),
              <<"a", "b", "c">>,
              Rep("A") \o <<" ", " ">> \o NAME_LINUX,
              Rep("b") \o <<" ", " ">> \o <<"o","t","h","e","r",".","e","x","e">>,
              Rep("c") \o <<" ", "*", "A", "-", "L", "I", "N", "U", "X">>,
              <<"d", "e", " ">> \o NAME_LINUX }
    IN
    /\ api = "service"
    /\ mode = "packaged"
    /\ os = "linux"
    /\ now = 0
    /\ registry = <<>>
    /\ svcFile = AbsentFile
    /\ mgrFile = [kind |-> "absent", rec |-> MgrDefault]
    /\ fs = <<>>
    /\ lastOp = Idle
    /\ parseIn \in { [contents |-> c, target |-> t] :
                        c \in { Text(ls) : ls \in UNION { [1..n -> ParseLines] : n \in 0..MaxLines } },
                        t \in { None, NAME_LINUX, NAME_WINDOWS } }
    /\ parseOut = [done |-> FALSE, value |-> None]
    /\ writer = NoWriter
    /\ procs = <<>>

ParseStep ==
    /\ ~parseOut.done
    /\ parseOut' = [done |-> TRUE,
                    value |-> parse_sha256_text(parseIn.contents, parseIn.target)]
    /\ UNCHANGED <<api, mode, os, now, registry, svcFile, mgrFile, fs, lastOp, parseIn, writer, procs>>

SpecParse == InitParse /\ [][ParseStep]_vars

MaxParts == 3

\* the segments joined by dots
RECURSIVE Dotted(_)
Dotted(parts) ==
    IF Len(parts) = 1 THEN parts[1] ELSE parts[1] \o <<".">> \o Dotted(Tail(parts))

\* tags and versions: dotted numbers of up to MaxParts segments, some with
\* the leading "v" (or two) of a tag, and texts version.parse rejects
VersionTexts ==
    { Dotted(parts) : parts \in UNION { [1..n -> {<<"0">>, <<"1">>, <<"1", "0">>}] :
                                          n \in 1..MaxParts } }
    \cup { <<"v">> \o Dotted(parts) : parts \in [1..2 -> {<<"0">>, <<"1">>, <<"2">>}] }
    \cup { <<"v", "v", "1", ".", "1">>, <<>>, <<"v">>, <<"1", ".", ".", "0">>,
           <<"1", ".", "x">>, <<"1", ".">>, <<"n", "e", "x", "t">> }

\* The version comparison on its own: a tag and a version are drawn at the
\* start; one step evaluates _is_newer_version(tag) and the comparison
\* version.parse(x) > version.parse(y) both ways round
InitVersion ==
    /\ api = "service"
    /\ mode = "packaged"
    /\ os = "linux"
    /\ now = 0
    /\ registry = <<>>
    /\ svcFile = AbsentFile
    /\ mgrFile = [kind |-> "absent", rec |-> MgrDefault]
    /\ fs = <<>>
    /\ lastOp = Idle
    /\ parseIn \in { [a |-> a, b |-> b] : a \in VersionTexts, b \in VersionTexts }
    /\ parseOut = [done |-> FALSE, value |-> None]
    /\ writer = NoWriter
    /\ procs = <<>>

VersionStep ==
    /\ ~parseOut.done
    /\ parseOut' = [done |-> TRUE,
                    value |-> [newer |-> _is_newer_version(parseIn.a),
                               ab |-> version_gt(parseIn.a, parseIn.b),
                               ba |-> version_gt(parseIn.b, parseIn.a)]]
    /\ UNCHANGED <<api, mode, os, now, registry, svcFile, mgrFile, fs, lastOp, parseIn, writer, procs>>

SpecVersion == InitVersion /\ [][VersionStep]_vars

MaxAssets == 2

\* _pick_main_asset on its own: the assets of a release are drawn at the
\* start, one step picks
InitPick ==
    \* asset names by what they match: os and arch, os alone, arch and product
    \* token, arch alone, product token alone, nothing
    LET AssetNames ==
            { <<"a","p","p","-","l","i","n","u","x","-","x","8","6","_","6","4">>,
              <<"a","p","p","-","l","i","n","u","x">>,
              <<"o","f","f","l","i","n","e","s","c","o","u","t","i","n","g","m","a","n","a","g","e","r",
                "_","x","8","6","_","6","4">>,
              <<"a","p","p","_","x","8","6","_","6","4">>,
              <<"o","f","f","l","i","n","e","s","c","o","u","t","i","n","g","m","a","n","a","g","e","r">>,
              <<"a","p","p">> }
    IN
    /\ api = "service"
    /\ mode = "packaged"
    /\ os = "linux"
    /\ now = 0
    /\ registry = <<>>
    /\ svcFile = AbsentFile
    /\ mgrFile = [kind |-> "absent", rec |-> MgrDefault]
    /\ fs = <<>>
    /\ lastOp = Idle
    /\ parseIn \in
        { [assets |-> assets] :
            assets \in UNION { [1..n -> { [BinaryAsset(name, "https", CDN, "B1")
                                             EXCEPT !.size = size] :
                                           name \in AssetNames, size \in {10, 20} }] :
                               n \in 1..MaxAssets } }
    /\ parseOut = [done |-> FALSE, value |-> None]
    /\ writer = NoWriter
    /\ procs = <<>>

PickStep ==
    /\ ~parseOut.done
    /\ parseOut' = [done |-> TRUE, value |-> _pick_main_asset(os, parseIn.assets)]
    /\ UNCHANGED <<api, mode, os, now, registry, svcFile, mgrFile, fs, lastOp, parseIn, writer, procs>>

SpecPick == InitPick /\ [][PickStep]_vars

MaxReleases == 2

\* fetch_latest_stable_release on its own: the list the releases endpoint
\* returns is drawn at the start (any order, any flags), each step fetches it
InitFetch ==
    /\ api = "service"
    /\ mode = "packaged"
    /\ os \in {"linux", "windows"}
    /\ now = 0
    /\ registry \in UNION { [1..n -> {RelSame, RelNew, RelNewNoSum, RelPre,
                                      [RelPre EXCEPT !.prerelease = FALSE, !.draft = TRUE]}] :
                            n \in 0..MaxReleases }
    /\ svcFile = AbsentFile
    /\ mgrFile = [kind |-> "absent", rec |-> MgrDefault]
    /\ fs = <<>>
    /\ lastOp = Idle
    /\ parseIn = NoParse
    /\ parseOut = [done |-> FALSE, value |-> None]
    /\ writer = NoWriter
    /\ procs = <<>>

FetchStep ==
    \E script \in FetchScripts :
        LET Fetched(r) ==
                lastOp' = [op |-> "fetch_latest_stable_release", force |-> FALSE,
                           log |-> r.w.log, result |-> r.ret]
        IN  /\ Fetched(fetch_latest_stable_release(World, script))
            /\ UNCHANGED <<api, mode, os, now, registry, svcFile, mgrFile, fs,
                           parseIn, parseOut, writer, procs>>

\* get_update_status over the same lists, the attempts of its request going
\* every way they can
CheckStep ==
    /\ api = "service"
    /\ \E force \in BOOLEAN, script \in [1..NETWORK_RETRIES -> {"ok", "fail"}] :
        Commit("get_update_status", force, get_update_status(World, force, script))

SpecFetch == InitFetch /\ [][FetchStep \/ CheckStep]_vars

\* records a state file may hold
StoreRecords ==
    { DEFAULT_UPDATE_STATE,
      [DEFAULT_UPDATE_STATE EXCEPT !.status = "downloaded",
                                   !.asset_path = UpdatesPath(NAME_LINUX)],
      [DEFAULT_UPDATE_STATE EXCEPT !.status = "error", !.error = "Download failed"] }

MgrStoreRecords ==
    { [MgrDefault EXCEPT !.status = "idle"],
      [MgrDefault EXCEPT !.status = "downloaded",
                         !.asset_path = UpdatesPath(NAME_LINUX)] }

\* what may be found at the path of a state file
StoreFiles(records) ==
    { [kind |-> "absent", rec |-> r] : r \in {CHOOSE r \in records : TRUE} }
    \cup { [kind |-> "json", rec |-> r] : r \in records }
    \cup { [kind |-> k, rec |-> r] : k \in {"empty", "truncated", "text"},
                                     r \in {CHOOSE r \in records : TRUE} }

\* The two state stores on their own: the files are drawn at the start; loads
\* and reads happen at any time; a write opens the file (which truncates it),
\* then writes and closes it, and the process can be killed in between.
InitStore ==
    /\ api = "service"
    /\ mode = "packaged"
    /\ os = "linux"
    /\ now = 0
    /\ registry = <<>>
    /\ svcFile \in StoreFiles(StoreRecords) \cup {[kind |-> "list", rec |-> DEFAULT_UPDATE_STATE]}
    \* json.loads("[]"): a list; it has none of the keys of a record
    /\ mgrFile \in StoreFiles(MgrStoreRecords)
                   \cup {[kind |-> "list", rec |-> [status |-> "<list>", asset_path |-> <<>>]]}
    /\ fs = <<>>
    /\ lastOp = Idle
    /\ parseIn = NoParse
    /\ parseOut = [done |-> FALSE, value |-> None]
    /\ writer = NoWriter
    /\ procs = <<>>

\* load_update_state, from this or another request
LoadStep ==
    LET Loaded(r) ==
            /\ svcFile' = r.w.svc
            /\ lastOp' = [op |-> "load_update_state", force |-> FALSE,
                          log |-> r.w.log, result |-> r.ret]
    IN  /\ Loaded(load_update_state(World))
        /\ UNCHANGED <<api, mode, os, now, registry, mgrFile, fs, parseIn, parseOut, writer, procs>>

\* update_manager._read_state
ReadStep ==
    /\ lastOp' = [op |-> "_read_state", force |-> FALSE, log |-> EmptyLog,
                  result |-> _read_state(World)]
    /\ UNCHANGED <<api, mode, os, now, registry, svcFile, mgrFile, fs, parseIn, parseOut,
                   writer, procs>>

\* save_update_state line 62 / write_text: open(path, "w") truncates the file
SaveOpen ==
    /\ writer.pc = "idle"
    /\ \/ \E payload \in StoreRecords :
            /\ writer' = [pc |-> "opened", file |-> "svc", payload |-> payload]
            /\ svcFile' = [kind |-> "empty", rec |-> svcFile.rec]
            /\ UNCHANGED mgrFile
       \/ \E payload \in MgrStoreRecords :
            /\ writer' = [pc |-> "opened", file |-> "mgr", payload |-> payload]
            /\ mgrFile' = [kind |-> "empty", rec |-> mgrFile.rec]
            /\ UNCHANGED svcFile
    /\ lastOp' = Idle
    /\ UNCHANGED <<api, mode, os, now, registry, fs, parseIn, parseOut, procs>>

\* save_update_state line 63 / write_text: the text is written, the file closed
SaveClose ==
    /\ writer.pc = "opened"
    /\ IF writer.file = "svc"
       THEN /\ svcFile' = save_update_state(World, writer.payload).svc
            /\ UNCHANGED mgrFile
       ELSE /\ mgrFile' = _write_state(World, writer.payload).mgr
            /\ UNCHANGED svcFile
    /\ writer' = NoWriter
    /\ lastOp' = Idle
    /\ UNCHANGED <<api, mode, os, now, registry, fs, parseIn, parseOut, procs>>

\* the process is killed between the open and the close, and started again
Kill ==
    /\ writer.pc = "opened"
    /\ writer' = NoWriter
    /\ lastOp' = Idle
    /\ UNCHANGED <<api, mode, os, now, registry, svcFile, mgrFile, fs, parseIn, parseOut,
                   procs>>

SpecStore == InitStore /\ [][LoadStep \/ ReadStep \/ SaveOpen \/ SaveClose \/ Kill]_vars

----------------------------------------------------------------------------
(* Properties *)

HexDigits ==
    {"0","1","2","3","4","5","6","7","8","9","a","b","c","d","e","f",
     "A","B","C","D","E","F"}

\* the persisted record names a digest, and the file at the persisted
\* asset_path hashes to it
PersistedDigestMatches ==
    /\ Truthy(svcFile.rec.expected_sha256)
    /\ svcFile.rec.asset_path \in DOMAIN fs
    /\ compute_sha256(fs[svcFile.rec.asset_path].bytes) = Lower(svcFile.rec.expected_sha256)

\* C1: after update_service.apply_downloaded_update, apply_with_helper was
\* invoked only if the persisted expected_sha256 is non-empty and equals,
\* case-insensitively, the SHA-256 of the file at the persisted asset_path,
\* computed in that call; with the digest missing, empty or mismatched the
\* helper was not launched and the call returned success = false.
C1_ApplyOnlyVerified ==
    lastOp.op = "apply_downloaded_update" =>
        /\ lastOp.log.helper.called => (lastOp.log.verified /\ PersistedDigestMatches)
        /\ ~PersistedDigestMatches =>
              (~lastOp.log.helper.launched /\ ~lastOp.result.success)

\* C1 witness: an apply that verified the staged file and launched the helper
C1_Witness ==
    /\ lastOp.op = "apply_downloaded_update"
    /\ lastOp.log.verified
    /\ lastOp.log.helper.launched
    /\ lastOp.result.success

\* C2: update_manager.apply_update_now writes or launches the helper script
\* only for an asset whose digest it matched against a sidecar digest.
C2_ManagerApplyOnlyVerified ==
    lastOp.op = "apply_update_now" =>
        ((lastOp.log.helper.script \/ lastOp.log.helper.launched) => lastOp.log.verified)

\* C3: no operation issues a request for a URL that is not https or whose
\* host is outside the allow-list, through update_manager._download_file or
\* through update_client.download_file.
C3_RequestsOnlyAllowedUrls ==
    \A i \in DOMAIN lastOp.log.requests : _is_allowed_url(lastOp.log.requests[i])

\* C4: parse_sha256_text returns the digest of the first line whose filename
\* column ends, case-insensitively, with target_filename; failing that it
\* returns the text's token only when the text is a single bare 64-character
\* hex token, and None otherwise (in particular for two-column text naming
\* only another file).
C4_ParseSelectsTargetLine ==
    parseOut.done =>
        LET lines == SidecarLines(parseIn.contents)
            named == IF Truthy(parseIn.target)
                     THEN { i \in DOMAIN lines :
                              LineNamesTarget(lines[i], Lower(parseIn.target)) }
                     ELSE {}
            bare == /\ Len(lines) = 1
                    /\ Len(Tokens(lines[1], Whitespace)) = 1
                    /\ Len(FirstColumn(lines[1])) = DigestLen
                    /\ \A k \in DOMAIN FirstColumn(lines[1]) :
                          FirstColumn(lines[1])[k] \in HexDigits
        IN  parseOut.value =
                IF named # {} THEN Lower(FirstColumn(lines[Min(named)]))
                ELSE IF bare THEN Lower(FirstColumn(lines[1]))
                ELSE None

\* the persisted last_checked_at is less than 24 hours old
CheckedWithinCooldown ==
    /\ svcFile.kind = "json"
    /\ svcFile.rec.last_checked_at # NoTime
    /\ now - svcFile.rec.last_checked_at < CHECK_COOLDOWN_SECONDS

\* C5: a get_update_status(force_check=False) called with a last_checked_at
\* less than 24 hours old returns the payload of the persisted state, makes no
\* request and writes nothing to the state store; a get_update_status with
\* force_check=True always requests the releases list.
C5_CooldownSkipsFetch ==
    [][ lastOp'.op = "get_update_status" =>
          /\ (~lastOp'.force /\ CheckedWithinCooldown) =>
                /\ lastOp'.log.requests = <<>>
                /\ lastOp'.log.svcWrites = <<>>
                /\ svcFile' = svcFile
                /\ lastOp'.result = _build_status_payload(World, svcFile.rec)
          /\ lastOp'.force =>
                /\ lastOp'.log.requests # <<>>
                /\ lastOp'.log.requests[1] = RELEASES_URL ]_vars

\* C5 witness: a non-forced status call answered from the persisted record of
\* an earlier check
C5_Witness ==
    /\ lastOp.op = "get_update_status"
    /\ ~lastOp.force
    /\ lastOp.log.requests = <<>>
    /\ lastOp.log.svcWrites = <<>>
    /\ svcFile.rec.last_checked_at # NoTime
    /\ lastOp.result.state.last_checked_at = svcFile.rec.last_checked_at

\* C6: the cooldown runs from the last successful check: a non-forced
\* get_update_status called on a record left by a check that ended in status
\* error fetches again.
C6_ErrorCheckIsRetried ==
    [][ ( /\ lastOp'.op = "get_update_status"
          /\ ~lastOp'.force
          /\ svcFile.kind = "json"
          /\ svcFile.rec.status = "error"
          /\ svcFile.rec.error = "Network error while checking updates" )
        => lastOp'.log.requests # <<>> ]_vars

\* C7: update_service.download_latest_update called in packaged mode on a
\* persisted state that does not indicate an available update returns
\* success = false and makes no request.
C7_DownloadNeedsAvailableState ==
    [][ ( /\ lastOp'.op = "download_latest_update"
          /\ mode = "packaged"
          /\ svcFile.rec.status # "available"
          /\ ~_build_status_payload(World, svcFile.rec).update_available )
        => (~lastOp'.result.success /\ lastOp'.log.requests = <<>>) ]_vars

\* C8: in source mode each download and apply entry point returns
\* success = false with mode = "source", makes no request and writes neither
\* the state store nor the staging directory.
C8_SourceModeDoesNothing ==
    ( /\ mode = "source"
      /\ lastOp.op \in {"download_latest_update", "apply_downloaded_update",
                        "download_latest_release_asset", "apply_update_now"} )
    => /\ ~lastOp.result.success
       /\ lastOp.result.mode = "source"
       /\ lastOp.log.requests = <<>>
       /\ lastOp.log.svcWrites = <<>>
       /\ lastOp.log.mgrWrites = <<>>
       /\ lastOp.log.fsWrites = <<>>

\* C9: in source mode the payload of get_update_status, of update_service and
\* of update_manager, has update_available = false.
C9_SourceModeNeverAvailable ==
    ( /\ mode = "source"
      /\ lastOp.op \in {"get_update_status", "mgr_get_update_status"} )
    => ~lastOp.result.update_available

\* no staged asset: the service's record names none, or names a missing file
SvcNothingStaged ==
    svcFile.rec.asset_path = NoPath \/ svcFile.rec.asset_path \notin DOMAIN fs

\* no staged asset: the manager's record names none, or names a missing file
MgrNothingStaged ==
    mgrFile.rec.asset_path = NoPath \/ mgrFile.rec.asset_path \notin DOMAIN fs

\* C10: an apply called in packaged mode with no staged asset runs the
\* download itself: update_service.apply_downloaded_update makes the requests
\* of download_latest_update, update_manager.apply_update_now those of
\* download_latest_release_asset after its own check.
C10_ApplyDownloadsWhenNothingStaged ==
    [][ /\ ( lastOp'.op = "apply_downloaded_update" /\ mode = "packaged"
             /\ SvcNothingStaged )
           => /\ lastOp'.log.requests # <<>>
              /\ lastOp'.result.error # "No downloaded update found."
        /\ ( lastOp'.op = "apply_update_now" /\ mode = "packaged"
             /\ MgrNothingStaged /\ lastOp'.result.error # "No update available." )
           => Len(lastOp'.log.requests) >= 2 ]_vars

\* the entries of the list that are neither draft nor prerelease
StableEntries == { i \in DOMAIN registry : ~registry[i].draft /\ ~registry[i].prerelease }

\* C11: fetch_latest_stable_release reports the first entry, in list order,
\* whose draft and prerelease flags are both false: latest_version and
\* update_available come from its tag, the asset and the checksum asset from
\* its assets; with no such entry it reports no release.
C11_FirstStableReported ==
    (lastOp.op = "fetch_latest_stable_release" /\ lastOp.result.ok) =>
        IF StableEntries = {}
        THEN /\ lastOp.result.meta.latest_version = None
             /\ ~lastOp.result.meta.update_available
             /\ lastOp.result.meta.asset = NoAsset
             /\ lastOp.result.meta.checksum_asset = NoAsset
        ELSE /\ lastOp.result.meta.latest_version =
                    LStrip(registry[Min(StableEntries)].tag_name, {"v"})
             /\ lastOp.result.meta.update_available =
                    version_gt(LStrip(registry[Min(StableEntries)].tag_name, {"v"}),
                               CURRENT_VERSION)
             /\ lastOp.result.meta.asset =
                    _pick_main_asset(os, registry[Min(StableEntries)].assets)
             /\ lastOp.result.meta.asset \in
                    {NoAsset} \cup { registry[Min(StableEntries)].assets[k] :
                                        k \in DOMAIN registry[Min(StableEntries)].assets }
             /\ lastOp.result.meta.checksum_asset \in
                    {NoAsset} \cup { registry[Min(StableEntries)].assets[k] :
                                        k \in DOMAIN registry[Min(StableEntries)].assets }

\* C11 witness: a fetch that passed over a draft or prerelease entry and
\* reported the stable entry after it
C11_Witness ==
    /\ lastOp.op = "fetch_latest_stable_release"
    /\ lastOp.result.ok
    /\ Len(registry) = 2
    /\ (registry[1].draft \/ registry[1].prerelease)
    /\ StableEntries = {2}
    /\ lastOp.result.meta.latest_version = LStrip(registry[2].tag_name, {"v"})

\* the outcome of the last attempt the last operation made
LastOutcome == lastOp.log.outcomes[Len(lastOp.log.outcomes)]

\* C12: a refreshing get_update_status makes at most NETWORK_RETRIES attempts
\* and none after a successful one; when the list it got has no stable entry
\* (empty, or only drafts and prereleases) it ends with persisted status
\* up_to_date, error null and update_available false; when every attempt
\* failed it made all NETWORK_RETRIES and ends with persisted status error and
\* a non-null error.
C12_NoReleaseIsNotAnError ==
    (lastOp.op = "get_update_status" /\ lastOp.log.requests # <<>>) =>
        /\ Len(lastOp.log.outcomes) <= NETWORK_RETRIES
        /\ \A i \in 1..(Len(lastOp.log.outcomes) - 1) : lastOp.log.outcomes[i] # "ok"
        /\ (LastOutcome = "ok" /\ StableEntries = {}) =>
                /\ svcFile.kind = "json"
                /\ svcFile.rec.status = "up_to_date"
                /\ svcFile.rec.error = NoneStr
                /\ svcFile.rec.latest_version = None
                /\ ~lastOp.result.update_available
                /\ lastOp.result.state.status = "up_to_date"
        /\ (LastOutcome # "ok") =>
                /\ Len(lastOp.log.outcomes) = NETWORK_RETRIES
                /\ svcFile.kind = "json"
                /\ svcFile.rec.status = "error"
                /\ svcFile.rec.error # NoneStr
                /\ lastOp.result.state.status = "error"

\* C12 witness: a check that succeeded on its second attempt against a list of
\* prereleases and drafts only
C12_Witness ==
    /\ lastOp.op = "get_update_status"
    /\ lastOp.log.outcomes = <<"fail", "ok">>
    /\ registry # <<>>
    /\ StableEntries = {}
    /\ svcFile.rec.status = "up_to_date"

\* C12 witness: a check whose every attempt failed
C12_WitnessAllFailed ==
    /\ lastOp.op = "get_update_status"
    /\ lastOp.log.outcomes = <<"fail", "fail", "fail">>
    /\ svcFile.rec.status = "error"

\* the versions of the stable entries of the list
StableVersions == { LStrip(registry[i].tag_name, {"v"}) : i \in StableEntries }

\* C13: on the update_manager path a draft or prerelease entry is never a
\* candidate: the latest_version an update_manager status check reports is
\* that of a stable entry (or none), and download_latest_release_asset writes
\* only under the directory of a stable entry's version.
C13_ManagerSkipsPrereleases ==
    /\ lastOp.op = "mgr_get_update_status" =>
            lastOp.result.latest_version \in {None} \cup StableVersions
    /\ lastOp.op = "download_latest_release_asset" =>
            \A i \in DOMAIN lastOp.log.fsWrites :
                lastOp.log.fsWrites[i][2] \in StableVersions

\* C14: whatever the state file holds that is not a JSON object (text that is
\* not JSON, truncated JSON, an empty file, JSON that is not an object),
\* load_update_state returns the default record, status idle, and
\* update_manager._read_state returns {status: idle}.
C14_CorruptFileLoadsIdle ==
    [][ /\ (lastOp'.op = "load_update_state" /\ svcFile.kind \notin {"absent", "json"})
            => lastOp'.result = DEFAULT_UPDATE_STATE
        /\ (lastOp'.op = "_read_state" /\ mgrFile.kind \notin {"absent", "json"})
            => lastOp'.result = [MgrDefault EXCEPT !.status = "idle"] ]_vars

\* C15: the state files are replaced atomically: no step of save_update_state
\* or of update_manager._write_state, and no kill in the middle of one, takes
\* a state file holding a complete record to anything but a complete record
\* (the previous one or the new one).
C15_StateFileNeverHalfWritten ==
    [][ /\ svcFile.kind = "json" =>
                svcFile'.kind = "json"
        /\ mgrFile.kind = "json" =>
                mgrFile'.kind = "json" ]_vars

\* a path of a download in progress: <final path>.part, <final path>.tmp
IsTempPath(path) ==
    EndsWith(path[Len(path)], DOT_PART) \/ EndsWith(path[Len(path)], DOT_TMP)

\* a file that a cut stream left behind
IsPartial(content) == content = Partial(content)

\* C16: a staged file appears at its final path only by rename of a fully
\* downloaded temp file: the final asset path and the checksum sidecar path of
\* download_latest_update, and the final asset path of
\* download_latest_release_asset, never hold partially downloaded content.
C16_FinalPathsNeverPartial ==
    \A path \in DOMAIN fs : ~IsTempPath(path) => ~IsPartial(fs[path])

\* C17: a download makes at most NETWORK_RETRIES attempts for the asset, none
\* after a successful one, and deletes the partial temp file of a failed
\* attempt: after a download that failed, no temp file remains.
C17_NoPartialAfterFailure ==
    lastOp.op \in {"download_latest_update", "download_latest_release_asset"} =>
        /\ Cardinality({ i \in DOMAIN lastOp.log.requests :
                            lastOp.log.requests[i].path = "/asset" }) <= NETWORK_RETRIES
        /\ \A i, j \in DOMAIN lastOp.log.requests :
                (i < j /\ lastOp.log.requests[i].path = "/asset"
                       /\ lastOp.log.requests[j].path = "/asset")
                    => lastOp.log.outcomes[i] # "ok"
        /\ ~lastOp.result.success => \A path \in DOMAIN fs : ~IsTempPath(path)

\* C18: after any sequence of get_update_status, download_latest_update and
\* apply_downloaded_update calls, made one at a time, a persisted record whose
\* status is not error has a null error.
C18_ErrorOnlyWithErrorStatus ==
    (svcFile.kind = "json" /\ svcFile.rec.status # "error") => svcFile.rec.error = NoneStr

\* C18 witness: a download or an apply that succeeded and left a status other
\* than error
C18_Witness ==
    /\ lastOp.op \in {"download_latest_update", "apply_downloaded_update"}
    /\ lastOp.result.success
    /\ svcFile.kind = "json"
    /\ svcFile.rec.status \in {"downloaded", "applying", "applied"}
    /\ svcFile.rec.error = NoneStr

\* C19: in packaged mode every failure of download_latest_update or
\* apply_downloaded_update is recorded before the call returns: after a call
\* that returned success = false the persisted status is error and the
\* persisted error is not null.
C19_FailureIsRecorded ==
    (/\ mode = "packaged"
     /\ lastOp.op \in {"download_latest_update", "apply_downloaded_update"}
     /\ ~lastOp.result.success)
        => /\ svcFile.kind = "json"
           /\ svcFile.rec.status = "error"
           /\ svcFile.rec.error # NoneStr

\* the persisted status, a missing file counting as the default record
PersistedStatus == IF svcFile.kind = "json" THEN svcFile.rec.status ELSE "idle"

\* C20: get_update_status writes checking only over a persisted status of
\* idle, up_to_date or error, never over available, downloading, downloaded,
\* applying or applied; and a refresh that wrote checking ends in up_to_date,
\* available or error.
C20_CheckingOnlyFromRestingStatus ==
    [][ (/\ lastOp'.op = "get_update_status"
         /\ \E i \in DOMAIN lastOp'.log.svcWrites : lastOp'.log.svcWrites[i] = "checking")
            => /\ PersistedStatus \in {"idle", "up_to_date", "error"}
               /\ svcFile'.rec.status \in {"up_to_date", "available", "error"} ]_vars

\* the statuses the last operation wrote to the update_service state file
Writes == lastOp.log.svcWrites

\* C21: download_latest_update writes status downloading only over a
\* persisted status of available, and a call that wrote downloading ends with
\* persisted status downloaded when it succeeds and error when it fails, never
\* with downloading.
C21_DownloadingOnlyFromAvailable ==
    lastOp.op = "download_latest_update" =>
        /\ \A i \in DOMAIN Writes :
                (Writes[i] = "downloading" /\ (i = 1 \/ Writes[i - 1] # "downloading"))
                    => (i > 1 /\ Writes[i - 1] = "available")
        /\ (\E i \in DOMAIN Writes : Writes[i] = "downloading") =>
                /\ svcFile.rec.status = IF lastOp.result.success THEN "downloaded" ELSE "error"

\* C22: apply_downloaded_update writes status applying only over a persisted
\* status of downloaded, whatever asset_path and expected_sha256 still hold,
\* and writes status applied only after apply_with_helper returned success in
\* the same call.
C22_ApplyingOnlyFromDownloaded ==
    [][ lastOp'.op = "apply_downloaded_update" =>
            /\ (\E i \in DOMAIN lastOp'.log.svcWrites : lastOp'.log.svcWrites[i] = "applying")
                    => PersistedStatus = "downloaded"
            /\ (\E i \in DOMAIN lastOp'.log.svcWrites : lastOp'.log.svcWrites[i] = "applied")
                    => (lastOp'.log.helper.launched /\ lastOp'.result.success) ]_vars

\* two texts that parse and denote the same version: equal segments, trailing
\* zeros apart
SameVersion(a, b) ==
    /\ VersionParses(a)
    /\ VersionParses(b)
    /\ \A i \in 1..(Len(ReleaseTuple(a)) + Len(ReleaseTuple(b))) :
            Padded(ReleaseTuple(a), i) = Padded(ReleaseTuple(b), i)

\* C23: _is_newer_version(tag) is false when the tag without its leading "v"
\* does not parse and when it denotes the current version; the comparison is
\* false when either side does not parse, and on dotted-numeric versions it is
\* antisymmetric, with exactly one side newer when the versions differ.
C23_NewerIsStrictOrder ==
    parseOut.done =>
        /\ ~VersionParses(LStrip(parseIn.a, {"v"})) => ~parseOut.value.newer
        /\ SameVersion(LStrip(parseIn.a, {"v"}), CURRENT_VERSION) => ~parseOut.value.newer
        /\ (~VersionParses(parseIn.a) \/ ~VersionParses(parseIn.b))
                => (~parseOut.value.ab /\ ~parseOut.value.ba)
        /\ ~(parseOut.value.ab /\ parseOut.value.ba)
        /\ (VersionParses(parseIn.a) /\ VersionParses(parseIn.b)
                /\ ~SameVersion(parseIn.a, parseIn.b))
                => (parseOut.value.ab \/ parseOut.value.ba)

\* C23 witness: two versions of different lengths, the longer one newer only
\* by a segment the shorter one lacks
C23_Witness ==
    /\ parseOut.done
    /\ VersionParses(parseIn.a)
    /\ VersionParses(parseIn.b)
    /\ Len(ReleaseTuple(parseIn.a)) > Len(ReleaseTuple(parseIn.b))
    /\ \A i \in 1..Len(ReleaseTuple(parseIn.b)) :
            ReleaseTuple(parseIn.a)[i] = ReleaseTuple(parseIn.b)[i]
    /\ parseOut.value.ab
    /\ ~parseOut.value.ba

\* C24: apply_with_helper with a location that is not writable returns, off
\* Windows, success = false with the permissions error and neither writes nor
\* launches a helper script; on Windows it launches the helper elevated and
\* returns requires_elevation = true. With a writable location it returns
\* requires_elevation = false.
C24_UnwritableLocation ==
    lastOp.op = "apply_downloaded_update" =>
        /\ (lastOp.log.helper.writable = "no" /\ os # "windows") =>
                /\ ~lastOp.result.success
                /\ lastOp.result.error = "Install location is not writable on this OS."
                /\ ~lastOp.log.helper.script
                /\ ~lastOp.log.helper.launched
        /\ (lastOp.log.helper.writable = "no" /\ os = "windows"
                /\ lastOp.log.helper.launched) =>
                /\ lastOp.log.helper.elevated
                /\ lastOp.result.success
                /\ lastOp.result.requires_elevation
        /\ lastOp.log.helper.writable = "yes" =>
                /\ ~lastOp.log.helper.elevated
                /\ ~lastOp.result.requires_elevation

\* C24 witness: an apply off Windows that found the location not writable
C24_Witness ==
    /\ lastOp.op = "apply_downloaded_update"
    /\ os = "linux"
    /\ lastOp.log.helper.writable = "no"
    /\ ~lastOp.result.success

\* C24 witness on Windows: the helper launched through the elevation command
C24_WitnessElevated ==
    /\ lastOp.op = "apply_downloaded_update"
    /\ os = "windows"
    /\ lastOp.log.helper.writable = "no"
    /\ lastOp.result.requires_elevation

\* the criteria of the priority order a name matches: os and arch together,
\* os, arch, the product token
Criteria(o, name) ==
    { c \in {"os-arch", "os", "arch", "product"} :
        CASE c = "os-arch" ->
                Contains(Lower(name), <<"-">> \o _platform_os_key(o) \o <<"-">>
                                      \o _platform_arch_key)
          [] c = "os" -> Contains(Lower(name), <<"-">> \o _platform_os_key(o))
          [] c = "arch" -> Contains(Lower(name), _platform_arch_key)
          [] c = "product" ->
                Contains(Lower(name), <<"o","f","f","l","i","n","e","s","c","o","u","t","i","n",
                                        "g","m","a","n","a","g","e","r">>) }

\* the place of the best criterion matched: 4 for os and arch, 3 for os, 2 for
\* arch, 1 for the product token, 0 for none
Priority(o, name) ==
    IF "os-arch" \in Criteria(o, name) THEN 4
    ELSE IF "os" \in Criteria(o, name) THEN 3
    ELSE IF "arch" \in Criteria(o, name) THEN 2
    ELSE IF "product" \in Criteria(o, name) THEN 1
    ELSE 0

\* C25: _pick_main_asset follows the priority order: no candidate matches a
\* higher-priority criterion than the asset picked (a name matching the os
\* outranks one matching only the arch and the product token), and among
\* candidates matching the same criteria none is larger than the asset picked.
C25_PriorityOrderDecides ==
    parseOut.done =>
        \A i \in DOMAIN parseIn.assets :
            /\ Priority(os, parseIn.assets[i].name) <= Priority(os, parseOut.value.name)
            /\ Criteria(os, parseIn.assets[i].name) = Criteria(os, parseOut.value.name)
                    => parseIn.assets[i].size <= parseOut.value.size

----------------------------------------------------------------------------
(* The helper script, running after the application has been told to exit *)

\* Path(sys.executable)
current_exe == <<"install", <<"a", "p", "p">>>>

\* current_exe.with_suffix(current_exe.suffix + ".bak") / {exe_path}.bak
backup_exe == <<"install", <<"a", "p", "p", ".", "b", "a", "k">>>>

\* The script is the one api and os select: update_apply._build_unix_script,
\* update_apply._build_windows_script, or update_manager._write_apply_script
\* in its two variants. The running binary is B0, the staged candidate B1 or
\* B2, and a backup of an earlier update may be lying around.
InitHelper ==
    /\ api \in {"service", "manager"}
    /\ mode = "packaged"
    /\ os \in {"linux", "windows"}
    /\ now = 0
    /\ registry = <<>>
    /\ svcFile = AbsentFile
    /\ mgrFile = [kind |-> "absent", rec |-> MgrDefault]
    /\ \E candidate \in {"B1", "B2"}, stale \in BOOLEAN :
        fs = [p \in {current_exe, UpdatesPath(NAME_LINUX)}
                     \cup (IF stale THEN {backup_exe} ELSE {}) |->
                 Binary(CASE p = current_exe -> "B0"
                          [] p = backup_exe -> "B-"
                          [] OTHER -> candidate)]
    /\ lastOp = Idle
    /\ parseIn = NoParse
    /\ parseOut = [done |-> FALSE, value |-> None]
    /\ writer = NoWriter
    /\ procs = [helper |-> [pc |-> "backup", copied |-> "none", started |-> "none"]]

\* the backup lines: update_apply moves the executable to the backup path
\* (mv -f; on Windows del of the old backup, then move /Y), update_manager
\* copies it (cp -f ... || true; copy /Y). A step that fails changes nothing.
HelperBackup ==
    /\ procs.helper.pc = "backup"
    /\ \E ok \in BOOLEAN :
        LET Deleted == IF api = "service" /\ os = "windows" /\ Exists(World, backup_exe)
                       THEN Unlink(World, backup_exe)
                       ELSE World
        IN  fs' = IF ~ok \/ ~Exists(World, current_exe) THEN Deleted.fs
                  ELSE IF api = "service" THEN Replace(Deleted, current_exe, backup_exe).fs
                  ELSE WriteFile(Deleted, backup_exe, fs[current_exe]).fs
    /\ procs' = [procs EXCEPT !.helper.pc = "copy"]
    /\ UNCHANGED <<api, mode, os, now, registry, svcFile, mgrFile, lastOp, parseIn, parseOut,
                   writer>>

\* cp -f asset exe / copy /Y asset exe: the candidate over the executable's
\* path; when it fails the path is left as it was
HelperCopy ==
    /\ procs.helper.pc = "copy"
    /\ \E ok \in BOOLEAN :
        /\ fs' = IF ok THEN WriteFile(World, current_exe, fs[UpdatesPath(NAME_LINUX)]).fs
                 ELSE fs
        /\ procs' = [procs EXCEPT !.helper.pc = "start",
                                  !.helper.copied = IF ok THEN "ok" ELSE "failed"]
    /\ UNCHANGED <<api, mode, os, now, registry, svcFile, mgrFile, lastOp, parseIn, parseOut,
                   writer>>

\* the relaunch line: whatever is at the executable's path is started
HelperStart ==
    /\ procs.helper.pc = "start"
    /\ procs' = [procs EXCEPT !.helper.pc = "done",
                              !.helper.started = IF Exists(World, current_exe)
                                                 THEN fs[current_exe].bytes
                                                 ELSE "<no such file>"]
    /\ UNCHANGED <<api, mode, os, now, registry, svcFile, mgrFile, fs, lastOp, parseIn,
                   parseOut, writer>>

SpecHelper == InitHelper /\ [][HelperBackup \/ HelperCopy \/ HelperStart]_vars

\* C26: once the backup step of the helper script has run, the executable
\* still exists at its path; when the copy of the candidate over that path has
\* failed the path holds the previous binary, and the relaunch step starts it.
C26_BackupKeepsExecutable ==
    procs.helper.pc # "backup" =>
        /\ Exists(World, current_exe)
        /\ procs.helper.copied = "failed" => fs[current_exe].bytes = "B0"
        /\ procs.helper.pc = "done" /\ procs.helper.copied = "failed"
               => procs.helper.started = "B0"

\* C27: after a download_latest_update that left the persisted status
\* downloaded, and after one that reported success, the persisted
\* expected_sha256 is a non-empty digest, so the missing-digest check of a
\* following apply passes.
C27_DownloadedHasDigest ==
    (/\ mode = "packaged"
     /\ lastOp.op = "download_latest_update"
     /\ PersistedStatus = "downloaded" \/ lastOp.result.success)
        => /\ svcFile.kind = "json"
           /\ svcFile.rec.status = "downloaded"
           /\ Truthy(svcFile.rec.expected_sha256)

----------------------------------------------------------------------------
(* A second release: v1.1 was downloaded while it was the newest stable
   release, and v2.0 has been published since *)

\* the state file and the updates directory are the ones a successful
\* download_latest_update left when the endpoint listed v1.1 and v1.0
InitStaged ==
    \* v2.0, stable: each binary under the name it has in v1.1, with other bytes,
    \* and a sidecar holding its digest
    LET RelNewer ==
            [Release(<<"v", "2", ".", "0">>, FALSE, "https", CDN, "B2", <<>>) EXCEPT
                !.assets = @ \o <<SidecarAsset(NAME_LINUX \o DOT_SHA256,
                                               SumLine(compute_sha256("B2"), NAME_LINUX)),
                                  SidecarAsset(NAME_WINDOWS \o DOT_SHA256,
                                               SumLine(compute_sha256("B2"), NAME_WINDOWS))>>]
    IN
    /\ api = "service"
    /\ mode = "packaged"
    /\ os \in {"linux", "windows"}
    /\ now = 0
    /\ registry = <<RelNewer, RelNew, RelSame>>
    /\ mgrFile = [kind |-> "absent", rec |-> MgrDefault]
    /\ LET Downloaded(r) == svcFile = r.w.svc /\ fs = r.w.fs
       IN  Downloaded(download_latest_update(
               [svc |-> AbsentFile, mgr |-> mgrFile, fs |-> <<>>, log |-> EmptyLog, t |-> now,
                os |-> os, mode |-> mode, registry |-> <<RelNew, RelSame>>],
               AllOk, AllOk, AllOk, AllOk))
    /\ lastOp = Idle
    /\ parseIn = NoParse
    /\ parseOut = [done |-> FALSE, value |-> None]
    /\ writer = NoWriter
    /\ procs = <<>>

SpecStaged == InitStaged /\ [][SvcGetUpdateStatus \/ SvcDownload \/ SvcApply]_vars

\* C28: when apply_downloaded_update launches the helper, the file the helper
\* is launched for is the asset of the release whose version is the persisted
\* latest_version: its path carries that asset's name and its bytes are that
\* asset's bytes.
C28_AppliedAssetIsLatest ==
    (lastOp.op = "apply_downloaded_update" /\ lastOp.log.helper.launched) =>
        \E i \in DOMAIN registry :
            /\ LStrip(registry[i].tag_name, {"v"}) = svcFile.rec.latest_version
            /\ \E k \in DOMAIN registry[i].assets :
                /\ UpdatesPath(registry[i].assets[k].name) = lastOp.log.helper.asset
                /\ registry[i].assets[k].bytes = lastOp.log.helper.bytes

\* C29: once apply_downloaded_update has verified the staged file and launched
\* the helper, the next operation of the subsystem, running while the helper
\* is in its two-second sleep, leaves the file at asset_path with the bytes
\* that were verified; a download_latest_update of another version in
\* particular does.
C29_VerifiedBytesStayStaged ==
    [][ (/\ lastOp.op = "apply_downloaded_update"
         /\ lastOp.log.verified
         /\ lastOp.log.helper.launched)
            => /\ lastOp.log.helper.asset \in DOMAIN fs'
               /\ fs'[lastOp.log.helper.asset].bytes = lastOp.log.helper.bytes ]_vars

----------------------------------------------------------------------------
(* Two operations of one process running in two threads: each update_state
   call is a load_update_state followed, some time later, by a
   save_update_state *)

\* The update_state calls each operation makes, in order, when v1.1 is the
\* newest release and every request succeeds: get_update_status(force) writes
\* checking and available; download_latest_update runs that check and then
\* writes downloading, the progress, and downloaded with the staged fields.
ThreadCalls ==
    LET Check == << [status |-> "checking", error |-> NoneStr],
                    [status |-> "available", latest_version |-> LStrip(V1_1, {"v"}),
                     download_url |-> "html", error |-> NoneStr, last_checked_at |-> 0] >>
    IN  [download |-> Check \o
                      << [status |-> "downloading", progress |-> 5, error |-> NoneStr],
                         [progress |-> 85],
                         [status |-> "downloaded", progress |-> 100,
                          asset_path |-> UpdatesPath(NAME_LINUX),
                          checksum_path |-> UpdatesPath(NAME_LINUX \o DOT_SHA256),
                          expected_sha256 |-> compute_sha256("B1"),
                          latest_version |-> LStrip(V1_1, {"v"}),
                          download_url |-> "html", error |-> NoneStr] >>,
         check |-> Check]

InitThreads ==
    /\ api = "service"
    /\ mode = "packaged"
    /\ os = "linux"
    /\ now = 0
    /\ registry = <<RelNew, RelSame>>
    /\ svcFile \in {AbsentFile, JsonFile(DEFAULT_UPDATE_STATE)}
    /\ mgrFile = [kind |-> "absent", rec |-> MgrDefault]
    /\ fs = <<>>
    /\ lastOp = Idle
    /\ parseIn = NoParse
    /\ parseOut = [done |-> FALSE, value |-> None]
    /\ writer = NoWriter
    /\ procs = [t \in DOMAIN ThreadCalls |->
                    [pc |-> "load", calls |-> ThreadCalls[t], state |-> DEFAULT_UPDATE_STATE]]

\* update_state line 68: state = load_update_state()
ThreadLoad ==
    \E t \in DOMAIN procs :
        /\ procs[t].pc = "load"
        /\ LET Loaded(l) ==
                /\ svcFile' = l.w.svc
                /\ procs' = [procs EXCEPT ![t].pc = "save", ![t].state = l.ret]
           IN  Loaded(load_update_state(World))
        /\ UNCHANGED <<api, mode, os, now, registry, mgrFile, fs, lastOp, parseIn, parseOut,
                       writer>>

\* update_state lines 69-73: the changes are merged into the record loaded
\* earlier, and that record is saved
ThreadSave ==
    \E t \in DOMAIN procs :
        /\ procs[t].pc = "save"
        /\ svcFile' = save_update_state(World,
                          [Merge(procs[t].state, Head(procs[t].calls))
                              EXCEPT !.updated_at = now]).svc
        /\ procs' = [procs EXCEPT ![t].calls = Tail(@),
                                  ![t].pc = IF Len(procs[t].calls) = 1 THEN "done" ELSE "load"]
        /\ UNCHANGED <<api, mode, os, now, registry, mgrFile, fs, lastOp, parseIn, parseOut,
                       writer>>

SpecThreads == InitThreads /\ [][ThreadLoad \/ ThreadSave]_vars

\* C30: update_state loses no write when download_latest_update and
\* get_update_status(force_check=True) overlap: once both have returned the
\* persisted record holds the download's asset_path and expected_sha256, and
\* the save of an update_state call changes only the fields that call was
\* given (and updated_at), so it reverts nothing the other caller has written.
C30_NoLostWrite ==
    [][ /\ (\A t \in DOMAIN procs' : procs'[t].pc = "done") =>
                /\ svcFile'.rec.asset_path = UpdatesPath(NAME_LINUX)
                /\ svcFile'.rec.expected_sha256 = compute_sha256("B1")
        /\ \A t \in DOMAIN procs :
                (procs[t].pc = "save" /\ procs'[t].pc # "save") =>
                    \A f \in DOMAIN svcFile.rec \ (DOMAIN Head(procs[t].calls) \cup {"updated_at"}) :
                        svcFile'.rec[f] = svcFile.rec[f] ]_vars

====
